---------------------------- MODULE Spec2Model ----------------------------
(***************************************************************************)
(* Model of the contract extraction pipeline of lambdas/src:               *)
(*   main.py              handler, main, merge_results_with_cutouts,       *)
(*                        upload_cutouts_to_s3, cleanup_output_directory   *)
(*   cutout_extractor.py  CutoutExtractor.extract_cutouts and helpers      *)
(*   pdf_parser.py        parse_pdf_to_chunks                              *)
(*                                                                         *)
(* Python values are modelled as follows.                                  *)
(*   - a dict is a function whose DOMAIN is its key set; an absent key is  *)
(*     a key outside the DOMAIN;                                           *)
(*   - a list is a sequence (1-based here, 0-based in Python: the Python   *)
(*     unit_idx of the element at position i is i - 1);                    *)
(*   - strings are strings, built with \o and ToString exactly as the      *)
(*     f-strings of the code build them;                                   *)
(*   - a JSON field value is the string of its JSON text ("64", "[]",      *)
(*     "[planA]"); None is the string "None", which no other value of the  *)
(*     model equals.                                                       *)
(***************************************************************************)
EXTENDS Integers, Sequences, FiniteSets, TLC

VARIABLES
    pc,                   \* position in main / in the direct call
    bucket_name,          \* argument of main: a bucket name or None
    chunks,               \* chunk list of the run
    contract_result,      \* the list object returned by the contract pass
    installment_result,   \* the list object returned by the installment pass
    contract_returned,    \* history: contract_result as the pass returned it
    installment_returned, \* history: installment_result as the pass returned it
    combined_result,      \* step-5 list of main
    cutout_paths,         \* manifest of local cutout files
    s3_cutout_paths,      \* <<>> for None, <<d>> for the dict d
    merged_results,       \* <<>> until computed, <<list>> afterwards
    doc,                  \* the converted document parse_pdf_to_chunks reads
    render_failing,       \* file names whose rendering raises in this run
    pixmap_calls,         \* the get_pixmap calls made so far
    saved,                \* the cutout files written so far
    raised,               \* the exception that left the operation, or None
    args,                 \* arguments of a direct call of one method
    result,               \* what that call returned
    pdf_path,             \* argument of main: the path of the PDF
    job_id,               \* argument of main: the job identifier
    pdf_files,            \* local files outside OUTPUT_DIR: path -> content
    output_files,         \* OUTPUT_DIR and what is under it: path -> file or directory
    s3_objects,           \* cutouts bucket: S3 URI -> the files put there
    handle,               \* the fitz document of the run: none, open, closed
    sns_topic_arn,        \* environment variable SNS_TOPIC_ARN, or None
    published,            \* the messages published to the topic so far
    event,                \* event['Records'] of the handler invocation
    record_idx,           \* 0-based index of the record the handler is at
    attempts,             \* history: what the handler did with each record
    runs                  \* per run, the locals of a main that runs beside others

\* the variables of the converted document, the renderer and the direct calls
callVars == <<doc, render_failing, pixmap_calls, saved, raised, args, result>>

\* the variables of the handler loop
handlerVars == <<event, record_idx, attempts>>

\* the files, the bucket, the topic and the arguments of main
envVars == <<pdf_path, job_id, pdf_files, output_files, s3_objects, handle,
             sns_topic_arn, published>>

vars == <<pc, bucket_name, chunks, contract_result, installment_result,
          contract_returned, installment_returned, combined_result,
          cutout_paths, s3_cutout_paths, merged_results, callVars, envVars,
          handlerVars, runs>>

---------------------------------------------------------------------------
(* Bounds *)

MaxUnits == 2

---------------------------------------------------------------------------
(* Python helpers *)

None == "None"

EmptyDict == [k \in {} |-> None]

\* dict.get(k, default)
Get(d, k, default) == IF k \in DOMAIN d THEN d[k] ELSE default

\* d[k] = v
Put(d, k, v) == [x \in DOMAIN d \cup {k} |-> IF x = k THEN v ELSE d[x]]

\* d.update(e)
Update(d, e) == [x \in DOMAIN d \cup DOMAIN e |-> IF x \in DOMAIN e THEN e[x] ELSE d[x]]

\* bool(v) for the values of the model: None, "" and the empty list are falsy
Truthy(v) == v \notin {None, "", "[]"}

Max(a, b) == IF a >= b THEN a ELSE b
Min(a, b) == IF a <= b THEN a ELSE b

---------------------------------------------------------------------------
(* cutout_extractor.py *)

\* len(self.doc) of the modelled document, and its page rectangle
PageCount == 2
PageWidth == 600
PageHeight == 800

\* main passes padding=10 to extract_cutouts
Padding == 10

OUTPUT_DIR == "/tmp/output"

\* main passes scale=2.0 to extract_cutouts
Scale == 2

\* the page rectangle (page.rect) of the page at 0-based page_idx: the first
\* page is portrait, the other landscape
PageRect(page_idx) ==
    IF page_idx = 0
    THEN [width |-> PageWidth, height |-> PageHeight]
    ELSE [width |-> PageHeight, height |-> PageWidth]

(* Values a chunk's bbox may hold.  Each Python type is a record with a field
   of its own, so that values of different types are different values:
     None                      [none |-> TRUE]
     a tuple / a list          [tuple |-> items] / [list |-> items]
     a string                  [str |-> its characters]
     a truthy value of another type (a dict, an int)   [other |-> its type]
   and so is each element of a tuple or list: a number [num |-> n], None, or
   a string.  Numbers are integers: every float the model meets has an
   integral value, on which float arithmetic is exact. *)
PyNone == [none |-> TRUE]
BTuple(items) == [tuple |-> items]
BList(items) == [list |-> items]
BStr(chars) == [str |-> chars]
BOther(type_name) == [other |-> type_name]
Num(n) == [num |-> n]
Nums(q) == [k \in 1..Len(q) |-> Num(q[k])]

\* The result of _parse_bbox when it returns None
NoBbox == <<>>

\* `not bbox` (line 87)
IsFalsy(bbox) ==
    \/ "none" \in DOMAIN bbox
    \/ "tuple" \in DOMAIN bbox /\ Len(bbox.tuple) = 0
    \/ "list" \in DOMAIN bbox /\ Len(bbox.list) = 0
    \/ "str" \in DOMAIN bbox /\ Len(bbox.str) = 0

\* str.lstrip(cs), str.rstrip(cs), str.strip(cs) on a sequence of characters
RECURSIVE LStrip(_, _)
LStrip(s, cs) ==
    IF Len(s) > 0 /\ Head(s) \in cs THEN LStrip(Tail(s), cs) ELSE s

RECURSIVE RStrip(_, _)
RStrip(s, cs) ==
    IF Len(s) > 0 /\ s[Len(s)] \in cs
    THEN RStrip(SubSeq(s, 1, Len(s) - 1), cs)
    ELSE s

Strip(s, cs) == RStrip(LStrip(s, cs), cs)

\* the whitespace of the model's alphabet
Whitespace == {" "}

\* str.split(sep): the pieces between the separators, at least one piece
RECURSIVE Split(_, _)
Split(s, sep) ==
    LET hits == {k \in 1..Len(s) : s[k] = sep}
    IN  IF hits = {} THEN <<s>>
        ELSE LET k == CHOOSE x \in hits : \A y \in hits : x <= y
             IN  <<SubSeq(s, 1, k - 1)>> \o Split(SubSeq(s, k + 1, Len(s)), sep)

DigitChars == <<"0", "1", "2", "3", "4", "5", "6", "7", "8", "9">>

IsDigit(c) == \E k \in 1..10 : DigitChars[k] = c

DigitVal(c) == (CHOOSE k \in 1..10 : DigitChars[k] = c) - 1

RECURSIVE IntOf(_)
IntOf(digits) ==
    IF Len(digits) = 0 THEN 0
    ELSE IntOf(SubSeq(digits, 1, Len(digits) - 1)) * 10 + DigitVal(digits[Len(digits)])

\* the text float() accepts, over the alphabet of the model (digits, sign,
\* point, blank, parentheses, comma, letters that spell no float): blanks
\* around, an optional sign, digits with at most one point and at least one
\* digit
UnsignedPart(tok) ==
    IF Len(tok) > 0 /\ Head(tok) \in {"+", "-"} THEN Tail(tok) ELSE tok

IsFloatText(chars) ==
    LET body == UnsignedPart(Strip(chars, Whitespace))
        points == {k \in 1..Len(body) : body[k] = "."}
    IN  /\ Cardinality(points) <= 1
        /\ \A k \in 1..Len(body) : k \in points \/ IsDigit(body[k])
        /\ \E k \in 1..Len(body) : IsDigit(body[k])

\* the value of such a text whose fractional digits are zeros
FloatValue(chars) ==
    LET tok == Strip(chars, Whitespace)
        body == UnsignedPart(tok)
        whole == Split(body, ".")[1]
    IN  IF Head(tok) = "-" THEN 0 - IntOf(whole) ELSE IntOf(whole)

\* float(x): the value in a one-element sequence, or the exception raised
FloatOf(x) ==
    IF "num" \in DOMAIN x THEN [raised |-> None, value |-> <<x.num>>]
    ELSE IF "str" \in DOMAIN x
         THEN IF IsFloatText(x.str)
              THEN [raised |-> None, value |-> <<FloatValue(x.str)>>]
              ELSE [raised |-> "ValueError", value |-> <<>>]
    ELSE [raised |-> "TypeError", value |-> <<>>]

\* [float(x) for x in items]: the values, or the first exception raised
RECURSIVE FloatsOf(_)
FloatsOf(items) ==
    IF Len(items) = 0 THEN [raised |-> None, value |-> <<>>]
    ELSE LET first == FloatOf(Head(items))
         IN  IF first.raised # None THEN first
             ELSE LET rest == FloatsOf(Tail(items))
                  IN  IF rest.raised # None THEN rest
                      ELSE [raised |-> None, value |-> first.value \o rest.value]

\* mutant of StripParens: only the opening parenthesis is removed
StripParens_LeftOnly(chars) == LStrip(chars, {"(", ")"})

\* line 139: bbox.strip('()')
StripParens(chars) == Strip(chars, {"(", ")"})

\* lines 147-149: ValueError and AttributeError are caught and give None; any
\* other exception leaves _parse_bbox
CaughtInParse(r) ==
    IF r.raised \in {"ValueError", "AttributeError"}
    THEN [raised |-> None, value |-> NoBbox]
    ELSE r

\* _parse_bbox: [raised |-> None, value |-> the four numbers or NoBbox], or
\* [raised |-> the exception that leaves it, value |-> NoBbox]
ParseBbox(bbox) ==
    LET failure == [raised |-> None, value |-> NoBbox]
    IN  IF "tuple" \in DOMAIN bbox \/ "list" \in DOMAIN bbox
        THEN LET items == IF "tuple" \in DOMAIN bbox THEN bbox.tuple ELSE bbox.list
             IN  IF Len(items) = 4 THEN CaughtInParse(FloatsOf(items)) ELSE failure
        ELSE IF "str" \in DOMAIN bbox
        THEN LET bbox_str == StripParens(bbox.str)
                 pieces == Split(bbox_str, ",")
                 coords == FloatsOf([k \in 1..Len(pieces) |->
                                        [str |-> Strip(pieces[k], Whitespace)]])
             IN  IF coords.raised # None THEN CaughtInParse(coords)
                 ELSE IF Len(coords.value) = 4 THEN coords
                 ELSE failure
        ELSE failure

\* the chunk loop of extract_cutouts: the first chunk with that id, else <<>>
FindChunk(chunk_list, chunk_id) ==
    LET hits == {k \in 1..Len(chunk_list) : chunk_list[k].chunk_id = chunk_id}
    IN  IF hits = {} THEN <<>>
        ELSE <<chunk_list[CHOOSE k \in hits : \A j \in hits : k <= j]>>

\* mutant of PaddedRect: t and b used as if measured from the top of the page
PaddedRect_NoFlip(bbox, padding, page_rect) ==
    << Max(0, bbox[1] - padding),
       Max(0, bbox[2] - padding),
       Min(page_rect.width, bbox[3] + padding),
       Min(page_rect.height, bbox[4] + padding) >>

\* fitz.Rect handed to get_pixmap: <<x0, y0, x1, y1>>
PaddedRect(bbox, padding, page_rect) ==
    LET l == bbox[1]
        t == bbox[2]
        r == bbox[3]
        b == bbox[4]
        page_height == page_rect.height
        pdf_y_top == page_height - t
        pdf_y_bottom == page_height - b
    IN  << Max(0, l - padding),
           Max(0, pdf_y_top - padding),
           Min(page_rect.width, r + padding),
           Min(page_rect.height, pdf_y_bottom + padding) >>

\* mutant of CutoutFileName: the chunk id left out of the name
CutoutFileName_NoChunkId(field, unit_index, chunk_id, page_num) ==
    "unit" \o ToString(unit_index + 1) \o "_" \o field
        \o "_page" \o ToString(page_num) \o ".png"

\* name of the file written by _extract_single_cutout
CutoutFileName(field, unit_index, chunk_id, page_num) ==
    "unit" \o ToString(unit_index + 1) \o "_" \o field \o "_" \o chunk_id
        \o "_page" \o ToString(page_num) \o ".png"

\* mutant of PageInRange: only the upper end is tested
PageInRange_NoLowerBound(page_num) == page_num - 1 < PageCount

\* line 182, negated: the 0-based page index is a page of the document
PageInRange(page_num) ==
    LET page_idx == page_num - 1
    IN  ~(page_idx < 0 \/ page_idx >= PageCount)

\* _extract_single_cutout.  `failing` is the set of file names for which
\* get_pixmap or pix.save raises (what the renderer does with a clip is the
\* library's business); the exception is caught and None returned.
\*   path   the path returned, or None
\*   calls  the get_pixmap calls made: page index, clip and scale
\*   saved  the files written, each with the arguments it was written for
ExtractSingleCutout(field, unit_index, chunk_id, page_num, bbox, padding, scale, failing) ==
    LET page_idx == page_num - 1
        padded_rect == PaddedRect(bbox, padding, PageRect(page_idx))
        filename == CutoutFileName(field, unit_index, chunk_id, page_num)
        output_file == OUTPUT_DIR \o "/cutouts/" \o filename
        call == [page_idx |-> page_idx, clip |-> padded_rect, scale |-> scale]
    IN  IF ~PageInRange(page_num)
        THEN [path |-> None, calls |-> <<>>, saved |-> <<>>]
        ELSE IF filename \in failing
        THEN [path |-> None, calls |-> <<call>>, saved |-> <<>>]
        ELSE [path |-> output_file,
              calls |-> <<call>>,
              saved |-> <<[file |-> output_file,
                           field |-> field, unit_index |-> unit_index,
                           chunk_id |-> chunk_id, page_num |-> page_num]>>]

\* key of the manifest and of the lookup in merge_results_with_cutouts
FieldKey(unit_number, field) == "unit" \o ToString(unit_number) \o "_" \o field

\* mutant of RecordCutout: the key's list replaced, not appended to
RecordCutout_Overwrite(paths, field_key, cutout_path) ==
    Put(paths, field_key, <<cutout_path>>)

\* lines 110-112: the path appended to the list of its key
RecordCutout(paths, field_key, cutout_path) ==
    Put(paths, field_key, Append(Get(paths, field_key, <<>>), cutout_path))

\* the state of extract_cutouts before its first citation: the manifest, the
\* get_pixmap calls and files written so far, and the exception that ended it
NoCutouts == [paths |-> EmptyDict, calls |-> <<>>, saved |-> <<>>, raised |-> None]

\* body of the `for source in sources` loop of extract_cutouts: the state
\* after one citation of the unit at 0-based unit_idx.  Once an exception has
\* left the method no later citation is processed.
ExtractSourceStep(st, source, unit_idx, chunk_list, failing) ==
    LET field == Get(source, "field", None)
        chunk_id == Get(source, "chunk_id", None)
        found == FindChunk(chunk_list, chunk_id)
    IN  IF st.raised # None THEN st
        ELSE IF ~Truthy(field) \/ ~Truthy(chunk_id) THEN st
        ELSE IF found = <<>> THEN st
        ELSE LET chunk_data == found[1]
                 bbox == Get(chunk_data, "bbox", PyNone)
             IN  IF IsFalsy(bbox) \/ "page" \notin DOMAIN chunk_data THEN st
                 ELSE LET page_num == chunk_data.page
                          parsed == ParseBbox(bbox)
                      IN  IF parsed.raised # None
                          THEN [st EXCEPT !.raised = parsed.raised]
                          ELSE IF parsed.value = NoBbox THEN st
                          ELSE LET cut == ExtractSingleCutout(
                                              field, unit_idx, chunk_id, page_num,
                                              parsed.value, Padding, Scale, failing)
                                   field_key == FieldKey(unit_idx + 1, field)
                               IN  [st EXCEPT
                                      !.calls = @ \o cut.calls,
                                      !.saved = @ \o cut.saved,
                                      !.paths = IF cut.path = None THEN @
                                                ELSE RecordCutout(@, field_key, cut.path)]

RECURSIVE ExtractSources(_, _, _, _, _)
ExtractSources(st, sources, unit_idx, chunk_list, failing) ==
    IF Len(sources) = 0 THEN st
    ELSE ExtractSources(
             ExtractSourceStep(st, Head(sources), unit_idx, chunk_list, failing),
             Tail(sources), unit_idx, chunk_list, failing)

RECURSIVE ExtractUnits(_, _, _, _, _)
ExtractUnits(st, units_data, unit_idx, chunk_list, failing) ==
    IF Len(units_data) = 0 THEN st
    ELSE ExtractUnits(
             ExtractSources(st, Get(Head(units_data), "sources", <<>>),
                            unit_idx, chunk_list, failing),
             Tail(units_data), unit_idx + 1, chunk_list, failing)

\* CutoutExtractor.extract_cutouts(extraction_result, padding=Padding,
\* scale=Scale, chunks=chunk_list)
extract_cutouts(extraction_result, chunk_list, failing) ==
    ExtractUnits(NoCutouts, extraction_result, 0, chunk_list, failing)

---------------------------------------------------------------------------
(* main.py: upload_cutouts_to_s3 *)

BUCKET == "bucket"
JOB_ID == "job1"

\* field names the passes use
FieldNames == {"unitCode", "sellValue", "buyerName", "installmentPlans"}

\* field_key.split('_', 1) and unit_part.replace('unit', ''): the digits
\* before the first underscore and the text after it. A unit number holds
\* no underscore, so the pair is the one FieldKey was built from.
SplitFieldKey(field_key) ==
    CHOOSE p \in (1..(2 * MaxUnits + 1)) \X FieldNames :
        FieldKey(p[1], p[2]) = field_key

\* s3_key of upload_cutouts_to_s3 and the URI upload_file_from_path returns
S3Uri(field_key, local_path, bucket, job) ==
    LET p == SplitFieldKey(field_key)
        unit_index == ToString(p[1])
        field_name == p[2]
        ext == ".png"
    IN  "s3://" \o bucket \o "/contracts/" \o job \o "/unit_" \o unit_index
            \o "/" \o field_name \o ext

\* the inner loop of upload_cutouts_to_s3 for one key; `failing` is the set of
\* local files whose upload raises (caught per file, the file is left out)
UploadKey(field_key, local_paths, bucket, job, failing) ==
    LET kept == SelectSeq(local_paths, LAMBDA lp : lp \notin failing)
    IN  [k \in 1..Len(kept) |-> S3Uri(field_key, kept[k], bucket, job)]

upload_cutouts_to_s3(paths, bucket, job, failing) ==
    [field_key \in DOMAIN paths |->
        UploadKey(field_key, paths[field_key], bucket, job, failing)]

\* every local file of a manifest
AllFiles(paths) ==
    UNION {{paths[k][j] : j \in 1..Len(paths[k])} : k \in DOMAIN paths}

---------------------------------------------------------------------------
(* main.py: merge_results_with_cutouts *)

\* mutant of InstallmentUnitAt: the 1-based unit_number used as the list index
InstallmentUnitAt_ByUnitNumber(installment, unit_idx) ==
    IF unit_idx + 1 < Len(installment) THEN <<installment[unit_idx + 2]>> ELSE <<>>

\* lines 143-144 and 178-179: the installment unit merged into ordinal
\* unit_idx (0-based), <<>> when the installment pass has no such ordinal
InstallmentUnitAt(installment, unit_idx) ==
    IF unit_idx < Len(installment) THEN <<installment[unit_idx + 1]>> ELSE <<>>

\* lines 136-148: the merged field map
MergeFields(contract_unit, inst) ==
    LET base == Get(contract_unit, "unit", EmptyDict)
    IN  IF inst = <<>> THEN base
        ELSE LET installment_plans ==
                     Get(Get(inst[1], "unit", EmptyDict), "installmentPlans", "[]")
             IN  IF Truthy(installment_plans)
                 THEN Put(base, "installmentPlans", installment_plans)
                 ELSE base

\* mutant of MergeConfidence: the update applied the other way round, so the
\* contract pass wins on a common key
MergeConfidence_BaseWins(contract_unit, inst) ==
    LET base == Get(contract_unit, "confidence", EmptyDict)
    IN  IF inst = <<>> THEN base
        ELSE Update(Get(inst[1], "confidence", EmptyDict), base)

\* lines 139 and 150-152: the merged confidence map
MergeConfidence(contract_unit, inst) ==
    LET base == Get(contract_unit, "confidence", EmptyDict)
    IN  IF inst = <<>> THEN base
        ELSE Update(base, Get(inst[1], "confidence", EmptyDict))

\* lines 156-175: the merged entry of one contract citation
ContractSourceEntry(source, unit_number, s3) ==
    LET field == Get(source, "field", None)
        chunk_id == Get(source, "chunk_id", None)
        s3_uris == Get(s3, FieldKey(unit_number, field), <<>>)
    IN  [field |-> field,
         chunk_file_key |->
            IF s3_uris # <<>> THEN s3_uris[1]
            ELSE IF chunk_id # "calculated" THEN chunk_id ELSE None]

\* lines 189-200: the merged entry of one installment citation
InstallmentSourceEntry(source, unit_number, s3) ==
    LET field == Get(source, "field", None)
        chunk_id == Get(source, "chunk_id", None)
        s3_uris == Get(s3, FieldKey(unit_number, field), <<>>)
    IN  [field |-> field,
         chunk_file_key |-> IF s3_uris # <<>> THEN s3_uris[1] ELSE chunk_id]

\* mutant of AlreadyInSources: the entries' chunk_file_key compared with the
\* field, so no later citation is ever found to be there already
AlreadyInSources_ByChunkKey(merged_sources, field) ==
    \E k \in 1..Len(merged_sources) : merged_sources[k].chunk_file_key = field

\* line 186: any(s['field'] == field for s in merged_unit['sources'])
AlreadyInSources(merged_sources, field) ==
    \E k \in 1..Len(merged_sources) : merged_sources[k].field = field

\* lines 181-200: the loop over the installment citations
RECURSIVE AddInstallmentSources(_, _, _, _)
AddInstallmentSources(merged_sources, installment_sources, unit_number, s3) ==
    IF installment_sources = <<>> THEN merged_sources
    ELSE LET source == Head(installment_sources)
             field == Get(source, "field", None)
         IN  AddInstallmentSources(
                 IF AlreadyInSources(merged_sources, field)
                 THEN merged_sources
                 ELSE Append(merged_sources,
                             InstallmentSourceEntry(source, unit_number, s3)),
                 Tail(installment_sources), unit_number, s3)

\* lines 154-200: the merged sources
MergeSources(contract_unit, inst, unit_number, s3) ==
    LET contract_sources == Get(contract_unit, "sources", <<>>)
        from_contract ==
            [k \in 1..Len(contract_sources) |->
                ContractSourceEntry(contract_sources[k], unit_number, s3)]
    IN  IF inst = <<>> THEN from_contract
        ELSE AddInstallmentSources(from_contract, Get(inst[1], "sources", <<>>),
                                   unit_number, s3)

\* lines 132-202: one iteration of the loop over contract_result
MergeUnit(unit_idx, contract_unit, installment, s3) ==
    LET inst == InstallmentUnitAt(installment, unit_idx)
    IN  [unit |-> MergeFields(contract_unit, inst),
         sources |-> MergeSources(contract_unit, inst, unit_idx + 1, s3),
         confidence |-> MergeConfidence(contract_unit, inst)]

merge_results_with_cutouts(contract, installment, s3) ==
    [i \in 1..Len(contract) |-> MergeUnit(i - 1, contract[i], installment, s3)]

---------------------------------------------------------------------------
(* pdf_parser.py *)

(* The converted document: doc.tables and the items doc.iterate_items()
   yields, in order.  A table is [prov, markdown]; an item is [prov, label] and,
   when it is a text item, text.  prov is the list of provenance entries
   [page_no, bbox], bbox a record of l, t, r, b.  Text is a sequence of
   characters. *)

\* mutant of ChunkId: the counter written without zero padding
ChunkId_NoPad(chunk_counter) == "chunk_" \o ToString(chunk_counter)

\* f"chunk_{chunk_counter:03d}"
ChunkId(chunk_counter) ==
    "chunk_" \o (IF chunk_counter < 10 THEN "00"
                 ELSE IF chunk_counter < 100 THEN "0"
                 ELSE "") \o ToString(chunk_counter)

\* hasattr(x, 'prov') and x.prov
HasProv(x) == "prov" \in DOMAIN x /\ Len(x.prov) > 0

\* (bbox.l, bbox.t, bbox.r, bbox.b)
BboxTuple(bbox) == BTuple(Nums(<<bbox.l, bbox.t, bbox.r, bbox.b>>))

\* mutant of TableStep: a table is emitted whether it has provenance or not,
\* one without it at page 0 with an empty bbox
TableStep_Always(st, table) ==
    [chunks |-> Append(st.chunks,
                    [chunk_id |-> ChunkId(st.chunk_counter),
                     text |-> table.markdown,
                     page |-> IF HasProv(table) THEN table.prov[1].page_no ELSE 0,
                     bbox |-> IF HasProv(table) THEN BboxTuple(table.prov[1].bbox)
                              ELSE BTuple(<<>>),
                     element_type |-> "table"]),
     chunk_counter |-> st.chunk_counter + 1]

\* lines 25-42: the body of the loop over doc.tables
TableStep(st, table) ==
    IF HasProv(table)
    THEN LET prov == table.prov[1]
             page_ix == prov.page_no - 1
         IN  [chunks |-> Append(st.chunks,
                             [chunk_id |-> ChunkId(st.chunk_counter),
                              text |-> table.markdown,
                              page |-> page_ix + 1,
                              bbox |-> BboxTuple(prov.bbox),
                              element_type |-> "table"]),
              chunk_counter |-> st.chunk_counter + 1]
    ELSE st

\* lines 49-75: the body of the loop over doc.iterate_items()
ItemStep(st, item) ==
    IF "text" \notin DOMAIN item \/ Len(item.text) = 0
          \/ Len(Strip(item.text, Whitespace)) = 0
    THEN st
    ELSE IF ~HasProv(item) THEN st
    ELSE LET prov == item.prov[1]
             page_ix == prov.page_no - 1
         IN  [chunks |-> Append(st.chunks,
                             [chunk_id |-> ChunkId(st.chunk_counter),
                              text |-> item.text,
                              page |-> page_ix + 1,
                              bbox |-> BboxTuple(prov.bbox),
                              element_type |-> Get(item, "label", None)]),
              chunk_counter |-> st.chunk_counter + 1]

RECURSIVE TableLoop(_, _)
TableLoop(st, tables) ==
    IF Len(tables) = 0 THEN st
    ELSE TableLoop(TableStep(st, Head(tables)), Tail(tables))

RECURSIVE ItemLoop(_, _)
ItemLoop(st, items) ==
    IF Len(items) = 0 THEN st
    ELSE ItemLoop(ItemStep(st, Head(items)), Tail(items))

\* parse_pdf_to_chunks, from the converted document on
parse_pdf_to_chunks(document) ==
    ItemLoop(TableLoop([chunks |-> <<>>, chunk_counter |-> 0], document.tables),
             document.items).chunks

---------------------------------------------------------------------------
(* Inputs: the document and what the two extraction passes may return *)

Prov(page_no, l, t, r, b) ==
    [page_no |-> page_no, bbox |-> [l |-> l, t |-> t, r |-> r, b |-> b]]

\* the document main converts: a table on page 1, a paragraph on page 2, an
\* empty line, and a paragraph located on a page past the end of the PDF
ContractDoc ==
    [tables |-> << [prov |-> <<Prov(1, 100, 700, 300, 650)>>,
                    markdown |-> <<"|", "6", "4", "|">>] >>,
     items |-> << [prov |-> <<Prov(1, 100, 700, 300, 650)>>, label |-> "table"],
                  [text |-> <<"R", "$">>, prov |-> <<Prov(2, 50, 400, 550, 300)>>,
                   label |-> "text"],
                  [text |-> <<" ">>, prov |-> <<Prov(2, 50, 290, 550, 280)>>,
                   label |-> "text"],
                  [text |-> <<"1", "2", "x">>,
                   prov |-> <<Prov(PageCount + 1, 10, 20, 100, 10)>>,
                   label |-> "list_item"] >>]

\* chunk list of the document: chunk_000 and chunk_001 lie on pages of the
\* PDF, chunk_002 names a page past its end; there is no chunk_999
DocChunks == parse_pdf_to_chunks(ContractDoc)

Cite(field, chunk_id) == [field |-> field, chunk_id |-> chunk_id]

Unit(fields, sources, confidence) ==
    [unit |-> fields, sources |-> sources, confidence |-> confidence]

\* the minimal structure both agents return when the answer is no JSON
MinimalUnit == Unit(EmptyDict, <<>>, EmptyDict)

\* units the contract pass may return
ContractUnits ==
    { Unit([unitCode |-> "64", sellValue |-> "100000"],
           <<Cite("unitCode", "chunk_000"), Cite("sellValue", "chunk_001")>>,
           [unitCode |-> "high", sellValue |-> "medium"]),
      Unit([unitCode |-> "65"],
           <<Cite("unitCode", "chunk_000"), Cite("unitCode", "chunk_999")>>,
           [unitCode |-> "low"]),
      Unit([unitCode |-> None, sellValue |-> "0"],
           <<Cite("sellValue", "calculated"), Cite("buyerName", None)>>,
           [sellValue |-> "high"]),
      Unit([unitCode |-> "64", installmentPlans |-> "[planA]"],
           <<Cite("installmentPlans", "chunk_002")>>,
           [unitCode |-> "medium", installmentPlans |-> "high"]),
      MinimalUnit }

\* units the installment pass may return
InstallmentUnits ==
    { Unit([unitCode |-> "64", installmentPlans |-> "[planB]"],
           <<Cite("unitCode", "chunk_000"), Cite("installmentPlans", "chunk_001")>>,
           [unitCode |-> "low", installmentPlans |-> "high"]),
      Unit([unitCode |-> "70", installmentPlans |-> "[]"],
           <<Cite("installmentPlans", "chunk_999"), Cite("installmentPlans", "chunk_001")>>,
           [installmentPlans |-> "low"]),
      Unit([installmentPlans |-> "[planC]"],
           <<Cite("installmentPlans", "calculated"), Cite("sellValue", "chunk_001")>>,
           [sellValue |-> "low"]),
      Unit([unitCode |-> "64", installmentPlans |-> None],
           <<Cite("unitCode", "chunk_001"), Cite("buyerName", None)>>,
           [unitCode |-> "medium"]),
      Unit([unitCode |-> "64"],
           <<Cite("unitCode", "chunk_001"), Cite("buyerName", None)>>,
           [unitCode |-> "medium"]),
      MinimalUnit }

\* lists of at most MaxUnits units
ListsOf(S) == UNION {[1..n -> S] : n \in 0..MaxUnits}

ContractResults == ListsOf(ContractUnits)
InstallmentResults == ListsOf(InstallmentUnits)

---------------------------------------------------------------------------
(* main.py: main *)

\* the renderings that fail in a run of main: none, or the one of the first
\* unit's unitCode cutout
RenderFailures == {{}, {CutoutFileName("unitCode", 0, "chunk_000", 1)}}

\* What the file at pdf_path may be: a PDF both libraries read ("pdf"), a
\* file the converter of parse_pdf_to_chunks rejects ("corrupt"), or a
\* document the converter reads and fitz.open rejects ("not_pdf").
PdfKinds == {"pdf", "corrupt", "not_pdf"}

SourceFile(kind, document) == [kind |-> kind, document |-> document]

\* the converted document before anything was converted
EmptyDoc == [tables |-> <<>>, items |-> <<>>]

\* the files main writes under OUTPUT_DIR
ChunksFile == OUTPUT_DIR \o "/document_chunks.json"
ContractFile == OUTPUT_DIR \o "/contract_extraction_result.json"
InstallmentFile == OUTPUT_DIR \o "/installment_extraction_result.json"
ManifestFile == OUTPUT_DIR \o "/cutout_manifest.json"
ReportFile == OUTPUT_DIR \o "/report.md"
PayloadFile == OUTPUT_DIR \o "/merged_notification_payload.json"

\* line 509: cutouts_dir
CutoutsDir == OUTPUT_DIR \o "/cutouts"

\* a file of the output directory: the value written, and the job whose run
\* wrote it
Written(job, data) == [writer |-> job, data |-> data]

\* a file opened for writing and not written yet: it is there and is empty
Opened(job) == [writer |-> job]

\* a file that holds the text of one run followed by the end of another's
Garbled(job) == [writer |-> job, garbled |-> TRUE]

\* json.load reads the file: it holds the JSON text of a value
Readable(file) == "data" \in DOMAIN file

\* a directory
Directory == [directory |-> TRUE]

\* shutil.rmtree(OUTPUT_DIR): the directory and all that is under it
Rmtree(dir_files) == [p \in {} |-> dir_files[p]]

\* Path.mkdir(exist_ok=True)
Mkdir(dir_files, path) ==
    IF path \in DOMAIN dir_files THEN dir_files ELSE Put(dir_files, path, Directory)

\* mutant of cleanup_output_directory: the directory is left as it was
cleanup_output_directory_KeepFiles(dir_files) == dir_files

\* cleanup_output_directory: rmtree, when the directory is there, then mkdir
\* leave an empty directory
cleanup_output_directory(dir_files) ==
    Mkdir(IF OUTPUT_DIR \in DOMAIN dir_files THEN Rmtree(dir_files) ELSE dir_files,
          OUTPUT_DIR)

\* json.dump then json.load of a chunk: the bbox tuple comes back as a list
JsonChunk(chunk) ==
    IF "bbox" \in DOMAIN chunk /\ "tuple" \in DOMAIN chunk.bbox
    THEN [chunk EXCEPT !.bbox = BList(chunk.bbox.tuple)]
    ELSE chunk

\* load_chunks: the chunk list read back from the JSON file
load_chunks(dir_files, json_path) ==
    LET dumped == dir_files[json_path].data
    IN  [k \in 1..Len(dumped) |-> JsonChunk(dumped[k])]

\* what the passes answer for a document other than ContractDoc
OtherContractAnswer ==
    <<Unit([unitCode |-> "12"], <<Cite("unitCode", "chunk_000")>>,
           [unitCode |-> "high"])>>

OtherInstallmentAnswer ==
    <<Unit([installmentPlans |-> "[planA]"],
           <<Cite("installmentPlans", "chunk_001")>>,
           [installmentPlans |-> "medium"])>>

\* an answer of the installment pass whose unit has installmentPlans null
NullPlansAnswer ==
    <<Unit([unitCode |-> "12", installmentPlans |-> None],
           <<Cite("unitCode", "chunk_001")>>,
           [unitCode |-> "low"])>>

\* the lists the contract pass may return for a converted document
ContractAnswers(document) ==
    IF document = ContractDoc THEN ContractResults ELSE {OtherContractAnswer}

\* the lists the installment pass may return for a converted document
InstallmentAnswers(document) ==
    IF document = ContractDoc THEN InstallmentResults
    ELSE {OtherInstallmentAnswer, NullPlansAnswer}

\* lines 448-454: the display loop writes unit_index into every citation of
\* the contract result
MarkUnitIndex(unit_data, unit_idx) ==
    LET sources == Get(unit_data, "sources", <<>>)
    IN  IF "sources" \notin DOMAIN unit_data THEN unit_data
        ELSE Put(unit_data, "sources",
                 [k \in 1..Len(sources) |-> Put(sources[k], "unit_index", unit_idx)])

\* lines 519-533: the unit object shared by contract_result and combined_result
\* after the installment unit of the same ordinal has been added to it
CombineUnit(contract_unit, installment_unit) ==
    LET installment_sources == Get(installment_unit, "sources", <<>>)
        installment_plans ==
            Get(Get(installment_unit, "unit", EmptyDict), "installmentPlans", "[]")
        installment_confidence == Get(installment_unit, "confidence", EmptyDict)
    IN  [unit |-> Put(Get(contract_unit, "unit", EmptyDict),
                      "installmentPlans", installment_plans),
         sources |-> contract_unit.sources \o installment_sources,
         confidence |-> Update(Get(contract_unit, "confidence", EmptyDict),
                               installment_confidence)]

\* lines 512-536: combined_result. contract_result.copy() copies the list, not
\* its units: the first Len(contract) units of combined_result are the unit
\* objects of contract_result themselves.
CombineResults(contract, installment) ==
    [i \in 1..Max(Len(contract), Len(installment)) |->
        IF i <= Len(contract)
        THEN IF i <= Len(installment)
             THEN CombineUnit(contract[i], installment[i])
             ELSE contract[i]
        ELSE installment[i]]

\* the cutout files a call of extract_cutouts wrote, added to the directory
WriteCutouts(dir_files, job, written) ==
    [p \in DOMAIN dir_files \cup {written[k].file : k \in 1..Len(written)} |->
        IF \E k \in 1..Len(written) : written[k].file = p
        THEN LET last == CHOOSE k \in 1..Len(written) :
                             /\ written[k].file = p
                             /\ \A j \in 1..Len(written) :
                                    written[j].file = p => j <= k
             IN  Written(job, written[last])
        ELSE dir_files[p]]

\* mutant of Close: the document is left open
Close_LeftOpen(h) == h

\* CutoutExtractor.close: the document, if there is one, is closed (the
\* documents of the model have pages, so an open document is truthy)
Close(h) == IF h = "open" THEN "closed" ELSE h

\* The objects of the bucket after upload_cutouts_to_s3: under each S3 URI the
\* local files put there, in the order of the puts; the object is the last.
PutObjects(objects, paths, bucket, job, failing) ==
    LET kept(k) == SelectSeq(paths[k], LAMBDA lp : lp \notin failing)
        uri(k) == S3Uri(k, "", bucket, job)
        keys == {k \in DOMAIN paths : Len(kept(k)) > 0}
    IN  [u \in DOMAIN objects \cup {uri(k) : k \in keys} |->
            Get(objects, u, <<>>)
              \o (IF \E k \in keys : uri(k) = u
                  THEN kept(CHOOSE k \in keys : uri(k) = u)
                  ELSE <<>>)]

\* the value of SNS_TOPIC_ARN when it is set
TOPIC_ARN == "arn:aws:sns:topic"

\* the path main is given when it is run on its own
LocalPdf == "/tmp/contract.pdf"

\* lines 221-227 and 596-602: the payload saved and published
Payload(job, bucket, units) ==
    [jobId |-> job, bucketName |-> bucket, status |-> "success", units |-> units]

\* variables main reads and never writes
argVars == <<bucket_name, pdf_path, job_id, pdf_files, sns_topic_arn,
             render_failing, args, result>>

\* the lists of the two passes
passVars == <<contract_result, installment_result, contract_returned,
              installment_returned>>

\* the locals of main as they are when main is entered
MainEntered ==
    /\ chunks = <<>>
    /\ contract_result = <<>>
    /\ installment_result = <<>>
    /\ contract_returned = <<>>
    /\ installment_returned = <<>>
    /\ combined_result = <<>>
    /\ cutout_paths = EmptyDict
    /\ s3_cutout_paths = <<>>
    /\ merged_results = <<>>
    /\ doc = EmptyDoc
    /\ pixmap_calls = <<>>
    /\ saved = <<>>
    /\ raised = None
    /\ handle = "none"

Init ==
    /\ pc = "start"
    /\ bucket_name \in {None, BUCKET}
    /\ pdf_path = LocalPdf
    /\ job_id = JOB_ID
    /\ pdf_files \in {(LocalPdf :> SourceFile(kind, ContractDoc)) : kind \in PdfKinds}
    /\ sns_topic_arn \in {None, TOPIC_ARN}
    /\ render_failing \in RenderFailures
    /\ MainEntered
    /\ output_files = EmptyDict
    /\ s3_objects = EmptyDict
    /\ published = <<>>
    /\ args = EmptyDict
    /\ result = EmptyDict
    /\ event = <<>>
    /\ record_idx = 0
    /\ attempts = <<>>
    /\ runs = EmptyDict

\* lines 340-361, step 1: the output directory is emptied, then the chunk
\* list is loaded from the chunk file or, when there is none, parsed from
\* pdf_path and saved.  The converter raises on a file it cannot read.
ParsePdf ==
    /\ pc = "start"
    /\ LET cleaned == cleanup_output_directory(output_files)
           source == pdf_files[pdf_path]
       IN  IF ChunksFile \in DOMAIN cleaned
           THEN /\ pc' = "parsed"
                /\ chunks' = load_chunks(cleaned, ChunksFile)
                /\ output_files' = cleaned
                /\ UNCHANGED <<doc, raised>>
           ELSE IF source.kind = "corrupt"
           THEN /\ pc' = "failed"
                /\ raised' = "ConversionError"
                /\ output_files' = cleaned
                /\ UNCHANGED <<doc, chunks>>
           ELSE /\ pc' = "parsed"
                /\ doc' = source.document
                /\ chunks' = parse_pdf_to_chunks(source.document)
                /\ output_files' = Put(cleaned, ChunksFile, Written(job_id, chunks'))
                /\ UNCHANGED raised
    /\ UNCHANGED <<argVars, handlerVars, runs, passVars, combined_result,
                   cutout_paths, s3_cutout_paths, merged_results, pixmap_calls,
                   saved, handle, s3_objects, published>>

\* step 3: contract_information_agent.extract_information and save_result
RunContractPass ==
    /\ pc = "parsed"
    /\ pc' = "contract_done"
    /\ \E r \in ContractAnswers(doc) :
          /\ contract_result' = r
          /\ contract_returned' = r
          /\ output_files' = Put(output_files, ContractFile, Written(job_id, r))
    /\ UNCHANGED <<argVars, handlerVars, runs, chunks, doc, raised,
                   installment_result, installment_returned, combined_result,
                   cutout_paths, s3_cutout_paths, merged_results, pixmap_calls,
                   saved, handle, s3_objects, published>>

\* step 4: installment_series_agent.extract_information and save_result
RunInstallmentPass ==
    /\ pc = "contract_done"
    /\ pc' = "installment_done"
    /\ \E r \in InstallmentAnswers(doc) :
          /\ installment_result' = r
          /\ installment_returned' = r
          /\ output_files' = Put(output_files, InstallmentFile, Written(job_id, r))
    /\ UNCHANGED <<argVars, handlerVars, runs, chunks, doc, raised,
                   contract_result, contract_returned, combined_result,
                   cutout_paths, s3_cutout_paths, merged_results, pixmap_calls,
                   saved, handle, s3_objects, published>>

\* lines 477-482: len(installment_plans) raises TypeError when a unit of the
\* installment result has installmentPlans null
DisplayRaises(installment) ==
    \E i \in 1..Len(installment) :
        Get(Get(installment[i], "unit", EmptyDict), "installmentPlans", "[]") = None

\* lines 417-505: display of the results.  The contract loop has written
\* unit_index into the citations when the installment loop raises.
DisplayResults ==
    /\ pc = "installment_done"
    /\ contract_result' =
          [i \in 1..Len(contract_result) |-> MarkUnitIndex(contract_result[i], i - 1)]
    /\ IF DisplayRaises(installment_result)
       THEN /\ pc' = "failed"
            /\ raised' = "TypeError"
       ELSE /\ pc' = "displayed"
            /\ UNCHANGED raised
    /\ UNCHANGED <<argVars, handlerVars, runs, chunks, doc,
                   installment_result, contract_returned, installment_returned,
                   combined_result, cutout_paths, s3_cutout_paths,
                   merged_results, pixmap_calls, saved, handle, output_files,
                   s3_objects, published>>

\* lines 511-536: step-5 combination
Combine ==
    /\ pc = "displayed"
    /\ pc' = "combined"
    /\ combined_result' = CombineResults(contract_result, installment_result)
    /\ contract_result' = SubSeq(combined_result', 1, Len(contract_result))
    /\ UNCHANGED <<argVars, handlerVars, runs, chunks, doc, raised,
                   installment_result, contract_returned, installment_returned,
                   cutout_paths, s3_cutout_paths, merged_results, pixmap_calls,
                   saved, handle, output_files, s3_objects, published>>

\* line 539, CutoutExtractor(pdf_path): fitz.open raises on a file it cannot
\* read, and then there is no document to close
OpenExtractor ==
    /\ pc = "combined"
    /\ IF pdf_files[pdf_path].kind = "pdf"
       THEN /\ pc' = "extracting"
            /\ handle' = "open"
            /\ UNCHANGED raised
       ELSE /\ pc' = "failed"
            /\ raised' = "FileDataError"
            /\ UNCHANGED handle
    /\ UNCHANGED <<argVars, handlerVars, runs, chunks, doc, passVars,
                   combined_result, cutout_paths, s3_cutout_paths,
                   merged_results, pixmap_calls, saved, output_files,
                   s3_objects, published>>

\* lines 540-546: extractor.extract_cutouts.  The mkdir of line 45 may raise
\* OSError; otherwise the citations are processed and the cutouts written.
ExtractCutouts ==
    /\ pc = "extracting"
    /\ pc' = "exiting"
    /\ \/ /\ raised' = "OSError"
          /\ UNCHANGED <<cutout_paths, pixmap_calls, saved, output_files>>
       \/ LET done == extract_cutouts(combined_result, chunks, render_failing)
          IN  /\ cutout_paths' = IF done.raised = None THEN done.paths ELSE cutout_paths
              /\ pixmap_calls' = done.calls
              /\ saved' = done.saved
              /\ raised' = done.raised
              /\ output_files' =
                    WriteCutouts(Mkdir(Mkdir(output_files, OUTPUT_DIR), CutoutsDir),
                                 job_id, done.saved)
    /\ UNCHANGED <<argVars, handlerVars, runs, chunks, doc, passVars,
                   combined_result, s3_cutout_paths, merged_results, handle,
                   s3_objects, published>>

\* lines 233-235, __exit__ of the with block: the document is closed, then
\* the exception of the block, if any, leaves main
ExitExtractor ==
    /\ pc = "exiting"
    /\ handle' = Close(handle)
    /\ pc' = IF raised = None THEN "cutouts_done" ELSE "failed"
    /\ UNCHANGED <<argVars, handlerVars, runs, chunks, doc, raised, passVars,
                   combined_result, cutout_paths, s3_cutout_paths,
                   merged_results, pixmap_calls, saved, output_files,
                   s3_objects, published>>

\* lines 550-568: the upload. S3Provider() may raise, which leaves
\* s3_cutout_paths None; otherwise no upload fails or every upload fails.
UploadCutouts ==
    /\ pc = "cutouts_done"
    /\ pc' = "uploaded"
    /\ \/ /\ bucket_name = None
          /\ s3_cutout_paths' = <<>>
          /\ UNCHANGED s3_objects
       \/ /\ bucket_name # None
          /\ s3_cutout_paths' = <<>>
          /\ UNCHANGED s3_objects
       \/ /\ bucket_name # None
          /\ \E failing \in {{}, AllFiles(cutout_paths)} :
                /\ s3_cutout_paths' =
                     <<upload_cutouts_to_s3(cutout_paths, bucket_name, job_id, failing)>>
                /\ s3_objects' =
                     PutObjects(s3_objects, cutout_paths, bucket_name, job_id, failing)
    /\ UNCHANGED <<argVars, handlerVars, runs, chunks, doc, raised, passVars,
                   combined_result, cutout_paths, merged_results, pixmap_calls,
                   saved, handle, output_files, published>>

\* lines 549 and 561: the manifest main saves
FinalCutoutPaths == IF s3_cutout_paths # <<>> THEN s3_cutout_paths[1] ELSE cutout_paths

\* lines 570-580: save_cutout_manifest and generate_units_report
SaveManifest ==
    /\ pc = "uploaded"
    /\ pc' = "manifest_saved"
    /\ output_files' =
          Put(Put(output_files, ManifestFile, Written(job_id, FinalCutoutPaths)),
              ReportFile, Written(job_id, [units |-> combined_result,
                                           cutouts |-> FinalCutoutPaths]))
    /\ UNCHANGED <<argVars, handlerVars, runs, chunks, doc, raised, passVars,
                   combined_result, cutout_paths, s3_cutout_paths,
                   merged_results, pixmap_calls, saved, handle, s3_objects,
                   published>>

\* lines 585-603: merge_results_with_cutouts on the run's results, and the
\* merged payload written
MergeResults ==
    /\ pc = "manifest_saved"
    /\ bucket_name # None
    /\ s3_cutout_paths # <<>>
    /\ pc' = "merged"
    /\ merged_results' =
          <<merge_results_with_cutouts(contract_result, installment_result,
                                       s3_cutout_paths[1])>>
    /\ output_files' =
          Put(output_files, PayloadFile,
              Written(job_id, Payload(job_id, bucket_name, merged_results'[1])))
    /\ UNCHANGED <<argVars, handlerVars, runs, chunks, doc, raised, passVars,
                   combined_result, cutout_paths, s3_cutout_paths, pixmap_calls,
                   saved, handle, s3_objects, published>>

\* lines 626-636: no merge and no notification, main returns
SkipNotification ==
    /\ pc = "manifest_saved"
    /\ (bucket_name = None \/ s3_cutout_paths = <<>>)
    /\ pc' = "done"
    /\ UNCHANGED <<argVars, handlerVars, runs, chunks, doc, raised, passVars,
                   combined_result, cutout_paths, s3_cutout_paths,
                   merged_results, pixmap_calls, saved, handle, output_files,
                   s3_objects, published>>

\* lines 608-623: SNS_TOPIC_ARN is set; the message is published, or
\* SNSProvider() or the publish raises and main goes on; main returns
SendNotification ==
    /\ pc = "merged"
    /\ sns_topic_arn # None
    /\ pc' = "done"
    /\ \/ published' = Append(published,
                              [topic |-> sns_topic_arn,
                               message |-> Payload(job_id, bucket_name,
                                                   merged_results[1])])
       \/ UNCHANGED published
    /\ UNCHANGED <<argVars, handlerVars, runs, chunks, doc, raised, passVars,
                   combined_result, cutout_paths, s3_cutout_paths,
                   merged_results, pixmap_calls, saved, handle, output_files,
                   s3_objects>>

\* lines 624-636: SNS_TOPIC_ARN is not set, main returns
Finish ==
    /\ pc = "merged"
    /\ sns_topic_arn = None
    /\ pc' = "done"
    /\ UNCHANGED <<argVars, handlerVars, runs, chunks, doc, raised, passVars,
                   combined_result, cutout_paths, s3_cutout_paths,
                   merged_results, pixmap_calls, saved, handle, output_files,
                   s3_objects, published>>

Next ==
    \/ ParsePdf
    \/ RunContractPass
    \/ RunInstallmentPass
    \/ DisplayResults
    \/ Combine
    \/ OpenExtractor
    \/ ExtractCutouts
    \/ ExitExtractor
    \/ UploadCutouts
    \/ SaveManifest
    \/ MergeResults
    \/ SkipNotification
    \/ SendNotification
    \/ Finish

Spec == Init /\ [][Next]_vars

---------------------------------------------------------------------------
(* merge_results_with_cutouts called on its own: arguments drawn from the
   pass outputs and from manifests of uploaded cutouts *)

\* manifests handed to the call: the cutouts of the fields of S, for every unit
\* the files, the bucket, the topic and the handler, untouched by a direct call
EnvAtRest ==
    /\ pdf_path = LocalPdf
    /\ job_id = JOB_ID
    /\ pdf_files = EmptyDict
    /\ output_files = EmptyDict
    /\ s3_objects = EmptyDict
    /\ handle = "none"
    /\ sns_topic_arn = None
    /\ published = <<>>
    /\ event = <<>>
    /\ record_idx = 0
    /\ attempts = <<>>
    /\ runs = EmptyDict

S3Args ==
    { [k \in {FieldKey(n, f) : n \in 1..MaxUnits, f \in S} |->
          <<S3Uri(k, "", BUCKET, JOB_ID)>>] :
      S \in SUBSET {"unitCode", "sellValue", "installmentPlans"} }

InitMerge ==
    /\ pc = "call"
    /\ bucket_name = BUCKET
    /\ chunks = DocChunks
    /\ contract_result \in ContractResults
    /\ installment_result \in InstallmentResults
    /\ contract_returned = contract_result
    /\ installment_returned = installment_result
    /\ combined_result = <<>>
    /\ cutout_paths = EmptyDict
    /\ s3_cutout_paths \in {<<d>> : d \in S3Args}
    /\ merged_results = <<>>
    /\ EnvAtRest
    /\ doc = ContractDoc
    /\ render_failing = {}
    /\ pixmap_calls = <<>>
    /\ saved = <<>>
    /\ raised = None
    /\ args = EmptyDict
    /\ result = EmptyDict

MergeCall ==
    /\ pc = "call"
    /\ pc' = "returned"
    /\ merged_results' =
          <<merge_results_with_cutouts(contract_result, installment_result,
                                       s3_cutout_paths[1])>>
    /\ UNCHANGED <<callVars, envVars, handlerVars, runs, bucket_name, chunks,
                   contract_result, installment_result, contract_returned,
                   installment_returned, combined_result, cutout_paths,
                   s3_cutout_paths>>

NextMerge == MergeCall

SpecMerge == InitMerge /\ [][NextMerge]_vars

---------------------------------------------------------------------------
(* _parse_bbox called on its own *)

\* the longest list or tuple handed to _parse_bbox
MaxBboxLen == 5

\* the variables main owns, at rest during a direct call
MainAtRest ==
    /\ bucket_name = None
    /\ contract_result = <<>>
    /\ installment_result = <<>>
    /\ contract_returned = <<>>
    /\ installment_returned = <<>>
    /\ combined_result = <<>>
    /\ s3_cutout_paths = <<>>
    /\ merged_results = <<>>
    /\ EnvAtRest

mainVars == <<bucket_name, contract_result, installment_result, contract_returned,
              installment_returned, combined_result, s3_cutout_paths,
              merged_results, envVars, handlerVars, runs>>

\* the decimal digits of a natural number
RECURSIVE DigitsOf(_)
DigitsOf(n) ==
    IF n < 10 THEN <<DigitChars[n + 1]>>
    ELSE DigitsOf(n \div 10) \o <<DigitChars[(n % 10) + 1]>>

\* a number as text: as an int ("-5") or as a float ("-5.0")
NumText(n, decimals) ==
    (IF n < 0 THEN <<"-">> \o DigitsOf(0 - n) ELSE DigitsOf(n))
        \o (IF decimals THEN <<".", "0">> ELSE <<>>)

\* four numbers as text: comma-separated, with or without a blank after each
\* comma, with or without parentheses around
BboxText(q, parens, blanks, decimals) ==
    LET sep == IF blanks THEN <<",", " ">> ELSE <<",">>
    IN  (IF parens THEN <<"(">> ELSE <<>>)
            \o NumText(q[1], decimals) \o sep \o NumText(q[2], decimals) \o sep
            \o NumText(q[3], decimals) \o sep \o NumText(q[4], decimals)
            \o (IF parens THEN <<")">> ELSE <<>>)

\* coordinates of the bboxes handed to _parse_bbox
ParseCoords == {-5, 0, 20, 650}

ParseQuads == ParseCoords \X ParseCoords \X ParseCoords \X ParseCoords

\* well-formed arguments, each with the four numbers it was written from
WellFormedArgs ==
    {[bbox |-> BList(Nums(q)), numbers |-> <<q>>] : q \in ParseQuads}
    \cup {[bbox |-> BTuple(Nums(q)), numbers |-> <<q>>] : q \in ParseQuads}
    \cup {[bbox |-> BStr(BboxText(q, parens, blanks, decimals)), numbers |-> <<q>>] :
            q \in ParseQuads, parens \in BOOLEAN, blanks \in BOOLEAN,
            decimals \in BOOLEAN}

\* elements of a list or tuple: two numbers, null, a word
BboxElements == {Num(20), Num(650), PyNone, [str |-> <<"x", "y">>]}

\* lists and tuples that are not four numbers
MalformedItems ==
    {items \in UNION {[1..n -> BboxElements] : n \in 0..MaxBboxLen} :
        ~(Len(items) = 4 /\ \A k \in 1..4 : "num" \in DOMAIN items[k])}

\* strings that are not four comma-separated numbers: "", "xy", "1,2,3",
\* "(1,2,3,4,5)", "1,2,,4", "1;2;3;4", "(1, x, 3, 4)"
MalformedTexts ==
    { <<>>,
      <<"x", "y">>,
      <<"1", ",", "2", ",", "3">>,
      <<"(", "1", ",", "2", ",", "3", ",", "4", ",", "5", ")">>,
      <<"1", ",", "2", ",", ",", "4">>,
      <<"1", ";", "2", ";", "3", ";", "4">>,
      <<"(", "1", ",", " ", "x", ",", " ", "3", ",", " ", "4", ")">> }

MalformedArgs ==
    {[bbox |-> BList(items), numbers |-> <<>>] : items \in MalformedItems}
    \cup {[bbox |-> BTuple(items), numbers |-> <<>>] : items \in MalformedItems}
    \cup {[bbox |-> BStr(chars), numbers |-> <<>>] : chars \in MalformedTexts}
    \cup {[bbox |-> b, numbers |-> <<>>] : b \in {PyNone, BOther("dict"), BOther("int")}}

InitParseBbox ==
    /\ pc = "call"
    /\ MainAtRest
    /\ chunks = <<>>
    /\ cutout_paths = EmptyDict
    /\ doc = ContractDoc
    /\ render_failing = {}
    /\ pixmap_calls = <<>>
    /\ saved = <<>>
    /\ raised = None
    /\ args \in WellFormedArgs \cup MalformedArgs
    /\ result = NoBbox

\* self._parse_bbox(bbox)
ParseBboxCall ==
    /\ pc = "call"
    /\ pc' = "returned"
    /\ LET r == ParseBbox(args.bbox)
       IN  /\ result' = r.value
           /\ raised' = r.raised
    /\ UNCHANGED <<mainVars, chunks, cutout_paths, doc, render_failing,
                   pixmap_calls, saved, args>>

NextParseBbox == ParseBboxCall

SpecParseBbox == InitParseBbox /\ [][NextParseBbox]_vars

---------------------------------------------------------------------------
(* _extract_single_cutout called on its own *)

\* parsed bboxes handed to the call: boxes inside a page, boxes reaching past
\* its edges, boxes with t < b, of no height, of no width, outside the page
GeometryQuads ==
    { <<100, 700, 300, 650>>, <<50, 400, 550, 300>>, <<10, 20, 100, 10>>,
      <<5, 795, 595, 790>>, <<-5, 500, 300, 450>>, <<0, 800, 600, 0>>,
      <<100, 650, 300, 700>>, <<100, 700, 300, 700>>, <<100, 700, 100, 650>>,
      <<900, 700, 950, 650>>, <<100, 900, 300, 850>> }

\* page numbers handed to the call, from before the first page to past the last
PageNumbers == (-1)..(PageCount + 1)

SingleArgs ==
    [field : {"unitCode"}, unit_index : {0}, chunk_id : {"chunk_000"},
     page_num : PageNumbers, bbox : GeometryQuads,
     padding : {0, 5, Padding}, scale : {1, Scale}]

InitSingleCutout ==
    /\ pc = "call"
    /\ MainAtRest
    /\ chunks = <<>>
    /\ cutout_paths = EmptyDict
    /\ doc = ContractDoc
    /\ args \in SingleArgs
    /\ render_failing \in
          {{}, {CutoutFileName(args.field, args.unit_index, args.chunk_id, args.page_num)}}
    /\ pixmap_calls = <<>>
    /\ saved = <<>>
    /\ raised = None
    /\ result = None

\* self._extract_single_cutout(field, unit_index, chunk_id, page_num, bbox,
\* output_dir, padding, scale): every exception is caught inside
SingleCutoutCall ==
    /\ pc = "call"
    /\ pc' = "returned"
    /\ LET r == ExtractSingleCutout(args.field, args.unit_index, args.chunk_id,
                                    args.page_num, args.bbox, args.padding,
                                    args.scale, render_failing)
       IN  /\ result' = r.path
           /\ pixmap_calls' = r.calls
           /\ saved' = r.saved
    /\ UNCHANGED <<mainVars, chunks, cutout_paths, doc, render_failing, raised, args>>

NextSingleCutout == SingleCutoutCall

SpecSingleCutout == InitSingleCutout /\ [][NextSingleCutout]_vars

---------------------------------------------------------------------------
(* _extract_single_cutout called several times on one output directory *)

\* calls made on one output directory
MaxCalls == 2

\* field names with and without underscores, unit ordinals whose numbers
\* share digits, chunk ids as parse_pdf_to_chunks writes them
NameArgs ==
    [field : {"unitCode", "unit_code", "1_unitCode", "unitCode_chunk_000"},
     unit_index : {0, 1, 10}, chunk_id : {ChunkId(0), ChunkId(1), ChunkId(1000)},
     page_num : 1..PageCount, bbox : {<<100, 700, 300, 650>>},
     padding : {Padding}, scale : {Scale}]

InitNames ==
    /\ pc = "idle"
    /\ MainAtRest
    /\ chunks = <<>>
    /\ cutout_paths = EmptyDict
    /\ doc = ContractDoc
    /\ render_failing = {}
    /\ pixmap_calls = <<>>
    /\ saved = <<>>
    /\ raised = None
    /\ args = EmptyDict
    /\ result = None

\* one more call of _extract_single_cutout
NamedCutoutCall ==
    /\ Len(saved) < MaxCalls
    /\ \E a \in NameArgs :
          LET r == ExtractSingleCutout(a.field, a.unit_index, a.chunk_id, a.page_num,
                                       a.bbox, a.padding, a.scale, render_failing)
          IN  /\ args' = a
              /\ result' = r.path
              /\ pixmap_calls' = pixmap_calls \o r.calls
              /\ saved' = saved \o r.saved
    /\ UNCHANGED <<mainVars, pc, chunks, cutout_paths, doc, render_failing, raised>>

NextNames == NamedCutoutCall

SpecNames == InitNames /\ [][NextNames]_vars

---------------------------------------------------------------------------
(* extract_cutouts called on its own *)

\* a chunk list as extract_cutouts may be handed one: bboxes as tuples, as
\* lists and as text, a page past the end of the PDF, a list holding null, a
\* list of three numbers, no bbox, text that is no bbox, no page
CutoutChunks ==
    << [chunk_id |-> ChunkId(0), page |-> 1, bbox |-> BTuple(Nums(<<100, 700, 300, 650>>))],
       [chunk_id |-> ChunkId(1), page |-> 2, bbox |-> BList(Nums(<<50, 400, 550, 300>>))],
       [chunk_id |-> ChunkId(2), page |-> PageCount + 1,
        bbox |-> BTuple(Nums(<<10, 20, 100, 10>>))],
       [chunk_id |-> ChunkId(3), page |-> 1,
        bbox |-> BList(<<Num(10), PyNone, Num(100), Num(10)>>)],
       [chunk_id |-> ChunkId(4), page |-> 1,
        bbox |-> BStr(BboxText(<<10, 20, 100, 10>>, TRUE, TRUE, TRUE))],
       [chunk_id |-> ChunkId(5), page |-> 1, bbox |-> BList(Nums(<<1, 2, 3>>))],
       [chunk_id |-> ChunkId(6), page |-> 2, bbox |-> PyNone],
       [chunk_id |-> ChunkId(7), page |-> 1, bbox |-> BStr(<<"x", "y">>)],
       [chunk_id |-> ChunkId(8), bbox |-> BTuple(Nums(<<100, 700, 300, 650>>))] >>

\* units handed to extract_cutouts: only their citations are read
CutoutUnits ==
    { Unit(EmptyDict, <<Cite("unitCode", ChunkId(0)), Cite("unitCode", ChunkId(1))>>,
           EmptyDict),
      Unit(EmptyDict, <<Cite("unitCode", "chunk_999"), Cite("sellValue", ChunkId(1))>>,
           EmptyDict),
      Unit(EmptyDict, <<Cite("unitCode", ChunkId(3)), Cite("sellValue", ChunkId(0))>>,
           EmptyDict),
      Unit(EmptyDict, <<Cite("sellValue", ChunkId(2)), Cite("sellValue", ChunkId(4)),
                        Cite("buyerName", ChunkId(8))>>,
           EmptyDict),
      Unit(EmptyDict, <<Cite("unitCode", ChunkId(5)), Cite("unitCode", ChunkId(6)),
                        Cite("unitCode", ChunkId(7)), Cite("unitCode", ChunkId(0))>>,
           EmptyDict),
      Unit(EmptyDict, <<Cite("unitCode", "calculated"), Cite("buyerName", None),
                        Cite("sellValue", ChunkId(1)), Cite("unitCode", ChunkId(4)),
                        Cite("sellValue", ChunkId(0))>>,
           EmptyDict),
      MinimalUnit }

\* the file names of the cutouts of a chunk
FilesOfChunk(chunk_id) ==
    {CutoutFileName(f, u, chunk_id, p) :
        f \in FieldNames, u \in 0..MaxUnits, p \in 1..PageCount}

InitCutouts ==
    /\ pc = "call"
    /\ MainAtRest
    /\ chunks = CutoutChunks
    /\ cutout_paths = EmptyDict
    /\ doc = ContractDoc
    /\ args \in {[extraction_result |-> r] : r \in ListsOf(CutoutUnits)}
    /\ render_failing \in {{}, FilesOfChunk(ChunkId(0))}
    /\ pixmap_calls = <<>>
    /\ saved = <<>>
    /\ raised = None
    /\ result = None

\* extractor.extract_cutouts(extraction_result, padding=Padding, scale=Scale,
\* chunks=chunks); cutout_paths is the method's manifest as it stands when the
\* method is left
ExtractCutoutsCall ==
    /\ pc = "call"
    /\ pc' = "returned"
    /\ LET done == extract_cutouts(args.extraction_result, chunks, render_failing)
       IN  /\ cutout_paths' = done.paths
           /\ pixmap_calls' = done.calls
           /\ saved' = done.saved
           /\ raised' = done.raised
    /\ UNCHANGED <<mainVars, chunks, doc, render_failing, args, result>>

NextCutouts == ExtractCutoutsCall

SpecCutouts == InitCutouts /\ [][NextCutouts]_vars

---------------------------------------------------------------------------
(* parse_pdf_to_chunks called on its own *)

MaxTables == 2
MaxPattern == 3
MaxRepeats == 4

\* tables: one with provenance, one without
TableKinds ==
    { [prov |-> <<Prov(1, 100, 700, 300, 650)>>, markdown |-> <<"|", "a", "|">>],
      [prov |-> <<>>, markdown |-> <<"|", "b", "|">>] }

\* items: a paragraph, a heading without provenance, a blank line, an empty
\* text, an item without text (a picture)
ItemKinds ==
    { [text |-> <<"a">>, prov |-> <<Prov(1, 50, 400, 550, 300)>>, label |-> "text"],
      [text |-> <<"b", " ">>, prov |-> <<>>, label |-> "section_header"],
      [text |-> <<" ", " ">>, prov |-> <<Prov(2, 50, 290, 550, 280)>>, label |-> "text"],
      [text |-> <<>>, prov |-> <<Prov(2, 50, 270, 550, 260)>>, label |-> "text"],
      [prov |-> <<Prov(2, 10, 20, 100, 10)>>, label |-> "picture"] }

RECURSIVE Repeat(_, _)
Repeat(pattern, n) == IF n = 0 THEN <<>> ELSE pattern \o Repeat(pattern, n - 1)

\* documents: at most MaxTables tables, and as items a pattern of at most
\* MaxPattern items repeated up to MaxRepeats times
Docs ==
    [tables : UNION {[1..n -> TableKinds] : n \in 0..MaxTables},
     items : {Repeat(pattern, n) :
                 pattern \in UNION {[1..m -> ItemKinds] : m \in 1..MaxPattern},
                 n \in 0..MaxRepeats}]

InitPdf ==
    /\ pc = "call"
    /\ MainAtRest
    /\ chunks = <<>>
    /\ cutout_paths = EmptyDict
    /\ doc \in Docs
    /\ render_failing = {}
    /\ pixmap_calls = <<>>
    /\ saved = <<>>
    /\ raised = None
    /\ args = EmptyDict
    /\ result = None

\* parse_pdf_to_chunks(pdf_path), the conversion done
ParsePdfCall ==
    /\ pc = "call"
    /\ pc' = "returned"
    /\ chunks' = parse_pdf_to_chunks(doc)
    /\ UNCHANGED <<mainVars, cutout_paths, doc, render_failing, pixmap_calls,
                   saved, raised, args, result>>

NextPdf == ParsePdfCall

SpecPdf == InitPdf /\ [][NextPdf]_vars

---------------------------------------------------------------------------
(* main run on a small document, with every failure of its environment *)

\* a document of two paragraphs, one on each page of the PDF
OtherDoc ==
    [tables |-> <<>>,
     items |-> << [text |-> <<"1", "2">>, prov |-> <<Prov(1, 100, 700, 300, 650)>>,
                   label |-> "text"],
                  [text |-> <<"x">>, prov |-> <<Prov(2, 50, 400, 550, 300)>>,
                   label |-> "text"] >>]

InitRun ==
    /\ pc = "start"
    /\ bucket_name \in {None, BUCKET}
    /\ pdf_path = LocalPdf
    /\ job_id = JOB_ID
    /\ pdf_files \in {(LocalPdf :> SourceFile(kind, OtherDoc)) : kind \in PdfKinds}
    /\ sns_topic_arn \in {None, TOPIC_ARN}
    /\ render_failing \in RenderFailures
    /\ MainEntered
    /\ output_files = EmptyDict
    /\ s3_objects = EmptyDict
    /\ published = <<>>
    /\ args = EmptyDict
    /\ result = EmptyDict
    /\ event = <<>>
    /\ record_idx = 0
    /\ attempts = <<>>
    /\ runs = EmptyDict

SpecRun == InitRun /\ [][Next]_vars

---------------------------------------------------------------------------
(* main.py: handler *)

\* the longest event['Records'] handed to the handler
MaxRecords == 2

\* a document of three paragraphs, stored under another key with the same
\* file name as OtherDoc
SecondDoc ==
    [tables |-> <<>>,
     items |-> << [text |-> <<"7">>, prov |-> <<Prov(2, 10, 500, 200, 450)>>,
                   label |-> "text"],
                  [text |-> <<"8">>, prov |-> <<Prov(1, 20, 300, 500, 200)>>,
                   label |-> "text"],
                  [text |-> <<"9">>, prov |-> <<Prov(1, 20, 150, 500, 100)>>,
                   label |-> "text"] >>]

\* An S3 key is the sequence of its components: <<"docs", "a.pdf">> is
\* "docs/a.pdf", and file_key.split('/') is the sequence itself.
\* The objects of the bucket the handler downloads from.
BucketPdfs ==
    (<<"docs", "a.pdf">> :> SourceFile("pdf", OtherDoc))
        @@ (<<"old", "a.pdf">> :> SourceFile("pdf", SecondDoc))
        @@ (<<"docs", "b.pdf">> :> SourceFile("corrupt", EmptyDoc))
        @@ (<<"docs", "c.docx">> :> SourceFile("not_pdf", OtherDoc))

\* an SQS record: whether its body is JSON text and, if so, the dict it holds
Record(is_json, message) == [is_json |-> is_json, message |-> message]

\* the records of the model: complete messages for each object of the bucket
\* and for a key the bucket does not hold, a message without file_key, one
\* without contract_id, and a body that is no JSON
Records ==
    { Record(TRUE, [file_key |-> <<"docs", "a.pdf">>, contract_id |-> "c1"]),
      Record(TRUE, [file_key |-> <<"old", "a.pdf">>, contract_id |-> "c2"]),
      Record(TRUE, [file_key |-> <<"docs", "b.pdf">>, contract_id |-> "c3"]),
      Record(TRUE, [file_key |-> <<"docs", "c.docx">>, contract_id |-> "c4"]),
      Record(TRUE, [file_key |-> <<"docs", "gone.pdf">>, contract_id |-> "c5"]),
      Record(TRUE, [contract_id |-> "c6"]),
      Record(TRUE, [file_key |-> <<"docs", "a.pdf">>]),
      Record(FALSE, EmptyDict) }

\* file_key.split('/')[-1] and f"/tmp/{file_name}"
LocalFilePath(file_key) == "/tmp/" \o file_key[Len(file_key)]

\* what the handler did with a record
Attempt(idx, outcome, local) == [record |-> idx, outcome |-> outcome, local |-> local]

\* mutant of AfterException: the loop is left when a record raises
AfterException_Abort(idx, n) == n

\* lines 308-313: the exception of a record is caught and the loop continues
\* with the next record
AfterException(idx, n) == idx + 1

\* the locals of main once main is left
MainLeft ==
    /\ chunks' = <<>>
    /\ contract_result' = <<>>
    /\ installment_result' = <<>>
    /\ contract_returned' = <<>>
    /\ installment_returned' = <<>>
    /\ combined_result' = <<>>
    /\ cutout_paths' = EmptyDict
    /\ s3_cutout_paths' = <<>>
    /\ merged_results' = <<>>
    /\ doc' = EmptyDoc
    /\ pixmap_calls' = <<>>
    /\ saved' = <<>>
    /\ raised' = None
    /\ handle' = "none"

InitHandler ==
    /\ pc = "handler"
    /\ bucket_name \in {None, BUCKET}
    /\ event \in UNION {[1..n -> Records] : n \in 0..MaxRecords}
    /\ record_idx = 0
    /\ attempts = <<>>
    /\ pdf_path = None
    /\ job_id = None
    /\ pdf_files = EmptyDict
    /\ sns_topic_arn \in {None, TOPIC_ARN}
    /\ render_failing = {}
    /\ MainEntered
    /\ output_files = EmptyDict
    /\ s3_objects = EmptyDict
    /\ published = <<>>
    /\ args = EmptyDict
    /\ result = EmptyDict
    /\ runs = EmptyDict

\* lines 257-266: S3_BUCKET_NAME is read and the S3Provider built; the
\* handler raises when the variable is not set or the provider cannot be built
HandlerEnter ==
    /\ pc = "handler"
    /\ \/ /\ bucket_name = None
          /\ pc' = "h_raised"
          /\ raised' = "ValueError"
       \/ /\ bucket_name # None
          /\ pc' = "h_raised"
          /\ raised' = "ValueError"
       \/ /\ bucket_name # None
          /\ pc' = "h_loop"
          /\ UNCHANGED raised
    /\ UNCHANGED <<argVars, handlerVars, runs, chunks, doc, passVars,
                   combined_result, cutout_paths, s3_cutout_paths,
                   merged_results, pixmap_calls, saved, handle, output_files,
                   s3_objects, published>>

\* lines 268-301: one record up to the call of main.  A body that is no JSON
\* and a download that fails raise, which the except of the record catches;
\* a message without file_key or contract_id is skipped.
HandleRecord ==
    /\ pc = "h_loop"
    /\ record_idx < Len(event)
    /\ LET record == event[record_idx + 1]
           message == record.message
           file_key == Get(message, "file_key", <<>>)
           contract_id == Get(message, "contract_id", None)
           local_file_path == LocalFilePath(file_key)
           n == Len(event)
       IN  IF ~record.is_json
           THEN /\ attempts' = Append(attempts, Attempt(record_idx, "bad_body", None))
                /\ record_idx' = AfterException(record_idx, n)
                /\ UNCHANGED <<pc, pdf_path, job_id, pdf_files>>
           ELSE IF file_key = <<>> \/ contract_id = None
           THEN /\ attempts' = Append(attempts, Attempt(record_idx, "skipped", None))
                /\ record_idx' = record_idx + 1
                /\ UNCHANGED <<pc, pdf_path, job_id, pdf_files>>
           ELSE IF file_key \notin DOMAIN BucketPdfs
           THEN /\ attempts' = Append(attempts,
                                      Attempt(record_idx, "download_failed", None))
                /\ record_idx' = AfterException(record_idx, n)
                /\ UNCHANGED <<pc, pdf_path, job_id, pdf_files>>
           ELSE /\ pdf_files' = Put(pdf_files, local_file_path, BucketPdfs[file_key])
                /\ pdf_path' = local_file_path
                /\ job_id' = contract_id
                /\ pc' = "start"
                /\ UNCHANGED <<attempts, record_idx>>
    /\ UNCHANGED <<bucket_name, sns_topic_arn, render_failing, args, result,
                   event, runs, chunks, doc, raised, passVars, combined_result,
                   cutout_paths, s3_cutout_paths, merged_results, pixmap_calls,
                   saved, handle, output_files, s3_objects, published>>

\* os.remove(local_file_path)
Remove(files, path) == [p \in DOMAIN files \ {path} |-> files[p]]

\* lines 303-313: main returned and the local file is removed, or main raised
\* and the except of the record catches the exception
AfterMain ==
    /\ pc \in {"done", "failed"}
    /\ IF pc = "done"
       THEN /\ pdf_files' = Remove(pdf_files, pdf_path)
            /\ attempts' = Append(attempts, Attempt(record_idx, "processed", pdf_path))
            /\ record_idx' = record_idx + 1
       ELSE /\ attempts' = Append(attempts, Attempt(record_idx, "main_raised", pdf_path))
            /\ record_idx' = AfterException(record_idx, Len(event))
            /\ UNCHANGED pdf_files
    /\ pc' = "h_loop"
    /\ MainLeft
    /\ UNCHANGED <<bucket_name, pdf_path, job_id, sns_topic_arn, render_failing,
                   args, result, event, runs, output_files, s3_objects, published>>

\* the loop is over and the handler returns None
HandlerReturn ==
    /\ pc = "h_loop"
    /\ record_idx >= Len(event)
    /\ pc' = "h_returned"
    /\ UNCHANGED <<argVars, handlerVars, runs, chunks, doc, raised, passVars,
                   combined_result, cutout_paths, s3_cutout_paths,
                   merged_results, pixmap_calls, saved, handle, output_files,
                   s3_objects, published>>

NextHandler ==
    \/ HandlerEnter
    \/ HandleRecord
    \/ AfterMain
    \/ HandlerReturn
    \/ ParsePdf
    \/ RunContractPass
    \/ RunInstallmentPass
    \/ DisplayResults
    \/ Combine
    \/ OpenExtractor
    \/ ExtractCutouts
    \/ ExitExtractor
    \/ UploadCutouts
    \/ SaveManifest
    \/ MergeResults
    \/ SkipNotification
    \/ SendNotification
    \/ Finish

SpecHandler == InitHandler /\ [][NextHandler]_vars

---------------------------------------------------------------------------
(* two executions of main, on different documents, running side by side on
   the one output directory.  Each statement of main that reads or writes
   the directory or the bucket is a step of its own, and so is each long
   call between two of them; shutil.rmtree and Path.mkdir are taken one
   system call at a time.  The locals of each run are in runs. *)

\* the runs, their documents and their jobs
RunIds == {1, 2}

RunPdf(p) == IF p = 1 THEN "/tmp/a.pdf" ELSE "/tmp/b.pdf"

RunJob(p) == IF p = 1 THEN "c1" ELSE "c2"

RunDoc(p) == IF p = 1 THEN OtherDoc ELSE SecondDoc

\* The locals of a run when main is entered.  extraction is the state of
\* extract_cutouts, idx the position of the loop the run is in, fd the file
\* the run holds open for writing: "none", "linked" (in the directory) or
\* "unlinked" (removed from the directory while open), cutout_manifest the
\* manifest generate_units_report read.  topfd and dirfd are the handles
\* shutil.rmtree holds on the output directory and on the cutouts
\* directory: "none", "stat" (lstat done, not opened yet), "linked" or
\* "stale" (the directory was removed since); entries and sub_entries are
\* the entries scanned in the two directories and not yet removed.
\* uploaded, manifest and payload are history: the files the run put in the
\* bucket, the manifest it saved and the payload it wrote.
RunEntered(p) ==
    [pc |-> "start", raised |-> None, pdf_path |-> RunPdf(p), job_id |-> RunJob(p),
     chunks |-> <<>>, contract_result |-> <<>>, installment_result |-> <<>>,
     combined_result |-> <<>>, extraction |-> NoCutouts, idx |-> 0,
     cutout_paths |-> EmptyDict, uploaded |-> <<>>, s3_cutout_paths |-> <<>>,
     fd |-> "none", manifest |-> <<>>, cutout_manifest |-> EmptyDict,
     payload |-> <<>>, topfd |-> "none", entries |-> {}, dirfd |-> "none",
     sub_entries |-> {}]

\* the job of an earlier execution of main
EarlierJob == "c0"

\* the output directory after a whole execution of main on the document with
\* the two answers: the chunk file (lines 357-358), the two result files
\* (lines 396 and 412), the cutouts (lines 539-546), the manifest (lines
\* 570-572), the report (line 579) and the payload (lines 585-636)
DirectoryLeft(job, document, contract, installment) ==
    LET chunk_list == parse_pdf_to_chunks(document)
        combined ==
            CombineResults([i \in 1..Len(contract) |->
                                MarkUnitIndex(contract[i], i - 1)],
                           installment)
        done == extract_cutouts(combined, chunk_list, {})
        manifest == upload_cutouts_to_s3(done.paths, BUCKET, job, {})
        merged == merge_results_with_cutouts(SubSeq(combined, 1, Len(contract)),
                                             installment, manifest)
    IN  WriteCutouts(
            (OUTPUT_DIR :> Directory) @@ (CutoutsDir :> Directory)
              @@ (ChunksFile :> Written(job, chunk_list))
              @@ (ContractFile :> Written(job, contract))
              @@ (InstallmentFile :> Written(job, installment))
              @@ (ManifestFile :> Written(job, manifest))
              @@ (ReportFile :>
                    Written(job, [units |-> combined, cutouts |-> manifest]))
              @@ (PayloadFile :> Written(job, Payload(job, BUCKET, merged))),
            job, done.saved)

\* the output directory as an earlier execution of main left it
LeftOver ==
    DirectoryLeft(EarlierJob, OtherDoc, OtherContractAnswer, OtherInstallmentAnswer)

\* every variable but runs, output_files and s3_objects
aloneVars == <<pc, bucket_name, chunks, passVars, combined_result, cutout_paths,
               s3_cutout_paths, merged_results, callVars, pdf_path, job_id,
               pdf_files, handle, sns_topic_arn, published, handlerVars>>

InitTwoRuns ==
    /\ pc = "runs"
    /\ bucket_name = BUCKET
    /\ pdf_path = None
    /\ job_id = None
    /\ pdf_files = [path \in {RunPdf(p) : p \in RunIds} |->
                       SourceFile("pdf", RunDoc(CHOOSE p \in RunIds : RunPdf(p) = path))]
    /\ sns_topic_arn = None
    /\ render_failing = {}
    /\ MainEntered
    /\ output_files \in {EmptyDict, LeftOver}
    /\ s3_objects = EmptyDict
    /\ published = <<>>
    /\ args = EmptyDict
    /\ result = EmptyDict
    /\ event = <<>>
    /\ record_idx = 0
    /\ attempts = <<>>
    /\ runs = [p \in RunIds |-> RunEntered(p)]

\* main is left by an exception
RunRaise(p, exception) ==
    [runs EXCEPT ![p].pc = "failed", ![p].raised = exception]

\* open(path, 'w'): the file is created, or emptied when it is there
OpenForWriting(dir_files, path, job) == Put(dir_files, path, Opened(job))

\* json.dump(data, f) and the close of the file: the text reaches the file
\* when the file is closed.  A file removed from the directory while open
\* does not come back.  A file another run wrote into since this run opened
\* it is overwritten from its start: it holds this run's text when that text
\* is the longer one, and this run's text followed by the end of the other
\* otherwise; the model does not hold the lengths, so both are possible.
DumpOutcomes(dir_files, fd, path, job, data) ==
    IF fd # "linked" THEN {dir_files}
    ELSE IF ~Readable(dir_files[path]) \/ dir_files[path].data = data
    THEN {Put(dir_files, path, Written(job, data))}
    ELSE {Put(dir_files, path, Written(job, data)),
          Put(dir_files, path, Garbled(job))}

\* cutout_extractor.py lines 60-64: the citations extract_cutouts goes
\* through, in order, each with the 0-based ordinal of its unit
RECURSIVE Citations(_, _)
Citations(units_data, unit_idx) ==
    IF Len(units_data) = 0 THEN <<>>
    ELSE LET sources == Get(Head(units_data), "sources", <<>>)
         IN  [k \in 1..Len(sources) |-> [unit_idx |-> unit_idx, source |-> sources[k]]]
                 \o Citations(Tail(units_data), unit_idx + 1)

\* the manifest key of a cutout written
SavedKey(cutout) == FieldKey(cutout.unit_index + 1, cutout.field)

\* main.py lines 57 and 74: the local files in the order upload_cutouts_to_s3
\* goes through them: key by key in the order the keys entered the manifest,
\* and under a key in the order of its list
RECURSIVE UploadOrder(_)
UploadOrder(saved_files) ==
    IF Len(saved_files) = 0 THEN <<>>
    ELSE LET field_key == SavedKey(Head(saved_files))
         IN  SelectSeq(saved_files, LAMBDA s : SavedKey(s) = field_key)
                 \o UploadOrder(SelectSeq(saved_files,
                                          LAMBDA s : SavedKey(s) # field_key))

\* line 24: output_path.exists()
RunExists(p) ==
    /\ runs[p].pc = "start"
    /\ runs' = [runs EXCEPT ![p].pc = IF OUTPUT_DIR \in DOMAIN output_files
                                      THEN "found" ELSE "removed"]
    /\ UNCHANGED <<aloneVars, output_files, s3_objects>>

\* the file a run at the position holds open for writing
OpenPath(position) ==
    CASE position = "chunk_file_open" -> ChunksFile
      [] position = "contract_file_open" -> ContractFile
      [] position = "installment_file_open" -> InstallmentFile
      [] position = "manifest_open" -> ManifestFile
      [] position = "report_open" -> ReportFile
      [] position = "payload_open" -> PayloadFile
      [] OTHER -> None

\* the paths main writes directly under OUTPUT_DIR
TopEntries ==
    {ChunksFile, ContractFile, InstallmentFile, ManifestFile, ReportFile,
     PayloadFile, CutoutsDir}

\* shutil.py lines 631-632, os.scandir: the entries of a directory
Scandir(dir_files, dir) ==
    IF dir = OUTPUT_DIR THEN DOMAIN dir_files \cap TopEntries
    ELSE DOMAIN dir_files \ (TopEntries \cup {OUTPUT_DIR})

\* os.unlink and os.rmdir: the entry leaves its directory
Unlink(dir_files, path) == [q \in DOMAIN dir_files \ {path} |-> dir_files[q]]

\* what the removal of a path does to the handles the runs hold: a file open
\* for writing stays open without a name, a directory handle goes stale
Detach(rs, path) ==
    [q \in RunIds |->
        [rs[q] EXCEPT
            !.fd = IF @ = "linked" /\ OpenPath(rs[q].pc) = path
                   THEN "unlinked" ELSE @,
            !.topfd = IF path = OUTPUT_DIR /\ @ \in {"stat", "linked"}
                      THEN "stale" ELSE @,
            !.dirfd = IF path = CutoutsDir /\ @ = "linked" THEN "stale" ELSE @]]

\* shutil.rmtree is left by an exception (onerror raises, ignore_errors is
\* False) and so is main
RmtreeRaise(p, exception) ==
    [runs EXCEPT ![p].pc = "failed", ![p].raised = exception,
                 ![p].topfd = "none", ![p].dirfd = "none",
                 ![p].entries = {}, ![p].sub_entries = {}]

\* line 26, shutil.py line 720: os.lstat(path)
RunRmtreeLstat(p) ==
    /\ runs[p].pc = "found"
    /\ runs' = IF OUTPUT_DIR \in DOMAIN output_files
               THEN [runs EXCEPT ![p].pc = "rmtree_lstat", ![p].topfd = "stat"]
               ELSE RmtreeRaise(p, "FileNotFoundError")
    /\ UNCHANGED <<aloneVars, output_files, s3_objects>>

\* shutil.py lines 725-731 and 738-744: os.open(path) and the samestat test.
\* A directory removed and made again since the lstat is another directory;
\* the file system may have given it the inode number of the old one, and
\* then the test passes and rmtree goes on in the new directory, otherwise
\* rmtree raises.
RunRmtreeOpen(p) ==
    /\ runs[p].pc = "rmtree_lstat"
    /\ runs' \in
          IF OUTPUT_DIR \notin DOMAIN output_files
          THEN {RmtreeRaise(p, "FileNotFoundError")}
          ELSE {[runs EXCEPT ![p].pc = "rmtree_open", ![p].topfd = "linked"]}
                 \cup (IF runs[p].topfd = "stale"
                       THEN {RmtreeRaise(p, "OSError")} ELSE {})
    /\ UNCHANGED <<aloneVars, output_files, s3_objects>>

\* shutil.py lines 631-632: the entries of the directory are listed; a
\* directory removed since it was opened lists nothing
RunRmtreeScandir(p) ==
    /\ runs[p].pc = "rmtree_open"
    /\ runs' = [runs EXCEPT
                   ![p].pc = "rmtree_entries",
                   ![p].entries = IF runs[p].topfd = "linked"
                                  THEN Scandir(output_files, OUTPUT_DIR) ELSE {}]
    /\ UNCHANGED <<aloneVars, output_files, s3_objects>>

\* shutil.py lines 680-683: os.unlink(entry.name, dir_fd=topfd) of one file
\* listed, in the order of the listing, which is any order
RunRmtreeUnlink(p) ==
    /\ runs[p].pc = "rmtree_entries"
    /\ \E entry \in runs[p].entries \ {CutoutsDir} :
          IF runs[p].topfd = "linked" /\ entry \in DOMAIN output_files
          THEN /\ output_files' = Unlink(output_files, entry)
               /\ runs' = [Detach(runs, entry) EXCEPT ![p].entries = @ \ {entry}]
          ELSE /\ runs' = RmtreeRaise(p, "FileNotFoundError")
               /\ UNCHANGED output_files
    /\ UNCHANGED <<aloneVars, s3_objects>>

\* shutil.py lines 646-659: the cutouts directory listed is opened
\* (entry.stat, os.open with dir_fd=topfd); each of the two calls raises
\* FileNotFoundError when the directory is gone
RunRmtreeOpenSub(p) ==
    /\ runs[p].pc = "rmtree_entries"
    /\ CutoutsDir \in runs[p].entries
    /\ runs' = IF runs[p].topfd = "linked" /\ CutoutsDir \in DOMAIN output_files
               THEN [runs EXCEPT ![p].pc = "rmtree_sub_open",
                                 ![p].dirfd = "linked",
                                 ![p].entries = @ \ {CutoutsDir}]
               ELSE RmtreeRaise(p, "FileNotFoundError")
    /\ UNCHANGED <<aloneVars, output_files, s3_objects>>

\* shutil.py lines 660 and 631-632: the entries of the cutouts directory
RunRmtreeScanSub(p) ==
    /\ runs[p].pc = "rmtree_sub_open"
    /\ runs' = [runs EXCEPT
                   ![p].pc = "rmtree_sub_entries",
                   ![p].sub_entries = IF runs[p].dirfd = "linked"
                                      THEN Scandir(output_files, CutoutsDir)
                                      ELSE {}]
    /\ UNCHANGED <<aloneVars, output_files, s3_objects>>

\* shutil.py lines 680-683: os.unlink(entry.name, dir_fd=dirfd) of one
\* cutout listed
RunRmtreeUnlinkSub(p) ==
    /\ runs[p].pc = "rmtree_sub_entries"
    /\ \E entry \in runs[p].sub_entries :
          IF runs[p].dirfd = "linked" /\ entry \in DOMAIN output_files
          THEN /\ output_files' = Unlink(output_files, entry)
               /\ runs' = [Detach(runs, entry) EXCEPT ![p].sub_entries = @ \ {entry}]
          ELSE /\ runs' = RmtreeRaise(p, "FileNotFoundError")
               /\ UNCHANGED output_files
    /\ UNCHANGED <<aloneVars, s3_objects>>

\* shutil.py lines 661-666: os.rmdir(entry.name, dir_fd=topfd) of the
\* cutouts directory, which raises when a cutout was saved since the listing
RunRmtreeRmdirSub(p) ==
    /\ runs[p].pc = "rmtree_sub_entries"
    /\ runs[p].sub_entries = {}
    /\ IF runs[p].topfd # "linked" \/ CutoutsDir \notin DOMAIN output_files
       THEN /\ runs' = RmtreeRaise(p, "FileNotFoundError")
            /\ UNCHANGED output_files
       ELSE IF Scandir(output_files, CutoutsDir) # {}
       THEN /\ runs' = RmtreeRaise(p, "OSError")
            /\ UNCHANGED output_files
       ELSE /\ output_files' = Unlink(output_files, CutoutsDir)
            /\ runs' = [Detach(runs, CutoutsDir) EXCEPT
                           ![p].pc = "rmtree_entries", ![p].dirfd = "none"]
    /\ UNCHANGED <<aloneVars, s3_objects>>

\* shutil.py lines 733-738: os.rmdir(path), by its name, which raises when
\* an entry was made since the listing
RunRmtreeRmdir(p) ==
    /\ runs[p].pc = "rmtree_entries"
    /\ runs[p].entries = {}
    /\ IF OUTPUT_DIR \notin DOMAIN output_files
       THEN /\ runs' = RmtreeRaise(p, "FileNotFoundError")
            /\ UNCHANGED output_files
       ELSE IF Scandir(output_files, OUTPUT_DIR) # {}
       THEN /\ runs' = RmtreeRaise(p, "OSError")
            /\ UNCHANGED output_files
       ELSE /\ output_files' = Unlink(output_files, OUTPUT_DIR)
            /\ runs' = [Detach(runs, OUTPUT_DIR) EXCEPT
                           ![p].pc = "removed", ![p].topfd = "none"]
    /\ UNCHANGED <<aloneVars, s3_objects>>

\* line 27, pathlib.py line 1116: os.mkdir(output_path); the directory
\* another run made in the meantime is tested next
RunMkdir(p) ==
    /\ runs[p].pc = "removed"
    /\ IF OUTPUT_DIR \in DOMAIN output_files
       THEN /\ runs' = [runs EXCEPT ![p].pc = "mkdir_exists"]
            /\ UNCHANGED output_files
       ELSE /\ output_files' = Mkdir(output_files, OUTPUT_DIR)
            /\ runs' = [runs EXCEPT ![p].pc = "cleaned"]
    /\ UNCHANGED <<aloneVars, s3_objects>>

\* pathlib.py lines 1122-1126: exist_ok, self.is_dir(); the FileExistsError
\* of os.mkdir is raised again when the directory is gone by now
RunMkdirIsDir(p) ==
    /\ runs[p].pc = "mkdir_exists"
    /\ runs' = IF OUTPUT_DIR \in DOMAIN output_files
               THEN [runs EXCEPT ![p].pc = "cleaned"]
               ELSE RunRaise(p, "FileExistsError")
    /\ UNCHANGED <<aloneVars, output_files, s3_objects>>

\* lines 347-352: load_chunks(chunks_output).  FileNotFoundError is caught;
\* the JSONDecodeError of a file that holds no JSON text leaves main.  The
\* text read is what the file holds at one moment between open and read.
RunLoadChunks(p) ==
    /\ runs[p].pc = "cleaned"
    /\ runs' = IF ChunksFile \notin DOMAIN output_files
               THEN [runs EXCEPT ![p].pc = "parsing"]
               ELSE IF ~Readable(output_files[ChunksFile])
               THEN RunRaise(p, "JSONDecodeError")
               ELSE [runs EXCEPT ![p].pc = "parsed",
                                 ![p].chunks = load_chunks(output_files, ChunksFile)]
    /\ UNCHANGED <<aloneVars, output_files, s3_objects>>

\* line 354: parse_pdf_to_chunks(pdf_path)
RunConvert(p) ==
    /\ runs[p].pc = "parsing"
    /\ runs' = [runs EXCEPT
                   ![p].pc = "converted",
                   ![p].chunks =
                       parse_pdf_to_chunks(pdf_files[runs[p].pdf_path].document)]
    /\ UNCHANGED <<aloneVars, output_files, s3_objects>>

\* line 357: open(chunks_output, 'w'), which raises when the directory is
\* not there
RunOpenChunks(p) ==
    /\ runs[p].pc = "converted"
    /\ IF OUTPUT_DIR \in DOMAIN output_files
       THEN /\ output_files' = OpenForWriting(output_files, ChunksFile, runs[p].job_id)
            /\ runs' = [runs EXCEPT ![p].pc = "chunk_file_open", ![p].fd = "linked"]
       ELSE /\ runs' = RunRaise(p, "FileNotFoundError")
            /\ UNCHANGED output_files
    /\ UNCHANGED <<aloneVars, s3_objects>>

\* line 358: json.dump(chunks, f) and the end of the with block
RunDumpChunks(p) ==
    /\ runs[p].pc = "chunk_file_open"
    /\ output_files' \in DumpOutcomes(output_files, runs[p].fd, ChunksFile,
                                      runs[p].job_id, runs[p].chunks)
    /\ runs' = [runs EXCEPT ![p].pc = "parsed", ![p].fd = "none"]
    /\ UNCHANGED <<aloneVars, s3_objects>>

\* line 392: contract_information_agent.extract_information(chunks)
RunExtractContract(p) ==
    /\ runs[p].pc = "parsed"
    /\ runs' = [runs EXCEPT ![p].pc = "contract_returned",
                            ![p].contract_result = OtherContractAnswer]
    /\ UNCHANGED <<aloneVars, output_files, s3_objects>>

\* line 396 and contract_information_agent.py line 312: open(output_path,
\* 'w'), which raises when the directory is not there
RunOpenContract(p) ==
    /\ runs[p].pc = "contract_returned"
    /\ IF OUTPUT_DIR \in DOMAIN output_files
       THEN /\ output_files' = OpenForWriting(output_files, ContractFile, runs[p].job_id)
            /\ runs' = [runs EXCEPT ![p].pc = "contract_file_open", ![p].fd = "linked"]
       ELSE /\ runs' = RunRaise(p, "FileNotFoundError")
            /\ UNCHANGED output_files
    /\ UNCHANGED <<aloneVars, s3_objects>>

\* contract_information_agent.py line 313: json.dump(result, f) and the end
\* of the with block
RunDumpContract(p) ==
    /\ runs[p].pc = "contract_file_open"
    /\ output_files' \in DumpOutcomes(output_files, runs[p].fd, ContractFile,
                                      runs[p].job_id, runs[p].contract_result)
    /\ runs' = [runs EXCEPT ![p].pc = "contract_done", ![p].fd = "none"]
    /\ UNCHANGED <<aloneVars, s3_objects>>

\* line 403: installment_series_agent.extract_information(chunks)
RunExtractInstallment(p) ==
    /\ runs[p].pc = "contract_done"
    /\ runs' = [runs EXCEPT ![p].pc = "installment_returned",
                            ![p].installment_result = OtherInstallmentAnswer]
    /\ UNCHANGED <<aloneVars, output_files, s3_objects>>

\* line 409 and installment_series_agent.py lines 358-363: open(file_path,
\* 'w'); save_result catches the exception of a directory that is not there
\* and returns
RunOpenInstallment(p) ==
    /\ runs[p].pc = "installment_returned"
    /\ IF OUTPUT_DIR \in DOMAIN output_files
       THEN /\ output_files' = OpenForWriting(output_files, InstallmentFile,
                                              runs[p].job_id)
            /\ runs' = [runs EXCEPT ![p].pc = "installment_file_open",
                                    ![p].fd = "linked"]
       ELSE /\ runs' = [runs EXCEPT ![p].pc = "installment_done"]
            /\ UNCHANGED output_files
    /\ UNCHANGED <<aloneVars, s3_objects>>

\* installment_series_agent.py line 360: json.dump(result, f) and the end of
\* the with block
RunDumpInstallment(p) ==
    /\ runs[p].pc = "installment_file_open"
    /\ output_files' \in DumpOutcomes(output_files, runs[p].fd, InstallmentFile,
                                      runs[p].job_id, runs[p].installment_result)
    /\ runs' = [runs EXCEPT ![p].pc = "installment_done", ![p].fd = "none"]
    /\ UNCHANGED <<aloneVars, s3_objects>>

\* lines 414-536: the display of the results and the step-5 combination
RunCombine(p) ==
    /\ runs[p].pc = "installment_done"
    /\ LET contract == runs[p].contract_result
           installment == runs[p].installment_result
           marked == [i \in 1..Len(contract) |-> MarkUnitIndex(contract[i], i - 1)]
           combined == CombineResults(marked, installment)
       IN  runs' = IF DisplayRaises(installment)
                   THEN [RunRaise(p, "TypeError") EXCEPT ![p].contract_result = marked]
                   ELSE [runs EXCEPT
                            ![p].pc = "combined",
                            ![p].contract_result = SubSeq(combined, 1, Len(contract)),
                            ![p].combined_result = combined]
    /\ UNCHANGED <<aloneVars, output_files, s3_objects>>

\* extract_cutouts begins its loops
EnterLoops(p) ==
    [runs EXCEPT ![p].pc = "extracting", ![p].idx = 0, ![p].extraction = NoCutouts]

\* line 539 and cutout_extractor.py lines 20 and 45, pathlib.py line 1116:
\* the PDF is opened and os.mkdir(cutouts) tried.  A missing parent is made
\* next, a directory found there is tested next.
RunOpenExtractor(p) ==
    /\ runs[p].pc = "combined"
    /\ IF OUTPUT_DIR \notin DOMAIN output_files
       THEN /\ runs' = [runs EXCEPT ![p].pc = "mkdir_parent"]
            /\ UNCHANGED output_files
       ELSE IF CutoutsDir \in DOMAIN output_files
       THEN /\ runs' = [runs EXCEPT ![p].pc = "cutouts_exist"]
            /\ UNCHANGED output_files
       ELSE /\ output_files' = Mkdir(output_files, CutoutsDir)
            /\ runs' = EnterLoops(p)
    /\ UNCHANGED <<aloneVars, s3_objects>>

\* pathlib.py lines 1117-1120: self.parent.mkdir(parents=True,
\* exist_ok=True), os.mkdir(OUTPUT_DIR)
RunMkdirParent(p) ==
    /\ runs[p].pc = "mkdir_parent"
    /\ IF OUTPUT_DIR \in DOMAIN output_files
       THEN /\ runs' = [runs EXCEPT ![p].pc = "parent_exists"]
            /\ UNCHANGED output_files
       ELSE /\ output_files' = Mkdir(output_files, OUTPUT_DIR)
            /\ runs' = [runs EXCEPT ![p].pc = "mkdir_cutouts"]
    /\ UNCHANGED <<aloneVars, s3_objects>>

\* pathlib.py lines 1122-1126 for the parent: is_dir(), or the
\* FileExistsError raised again, which leaves the with block and main
RunParentIsDir(p) ==
    /\ runs[p].pc = "parent_exists"
    /\ runs' = IF OUTPUT_DIR \in DOMAIN output_files
               THEN [runs EXCEPT ![p].pc = "mkdir_cutouts"]
               ELSE RunRaise(p, "FileExistsError")
    /\ UNCHANGED <<aloneVars, output_files, s3_objects>>

\* pathlib.py line 1121: self.mkdir(mode, parents=False, exist_ok=True),
\* which raises when the parent is gone again
RunMkdirCutouts(p) ==
    /\ runs[p].pc = "mkdir_cutouts"
    /\ IF OUTPUT_DIR \notin DOMAIN output_files
       THEN /\ runs' = RunRaise(p, "FileNotFoundError")
            /\ UNCHANGED output_files
       ELSE IF CutoutsDir \in DOMAIN output_files
       THEN /\ runs' = [runs EXCEPT ![p].pc = "cutouts_exist"]
            /\ UNCHANGED output_files
       ELSE /\ output_files' = Mkdir(output_files, CutoutsDir)
            /\ runs' = EnterLoops(p)
    /\ UNCHANGED <<aloneVars, s3_objects>>

\* pathlib.py lines 1122-1126 for the cutouts directory
RunCutoutsIsDir(p) ==
    /\ runs[p].pc = "cutouts_exist"
    /\ runs' = IF CutoutsDir \in DOMAIN output_files
               THEN EnterLoops(p)
               ELSE RunRaise(p, "FileExistsError")
    /\ UNCHANGED <<aloneVars, output_files, s3_objects>>

\* cutout_extractor.py line 211: the file names of the cutouts saved
SavedNames(files) ==
    {CutoutFileName(files[k].field, files[k].unit_index, files[k].chunk_id,
                    files[k].page_num) : k \in 1..Len(files)}

\* cutout_extractor.py lines 64-115: one citation.  pix.save raises when the
\* cutouts directory is not there; _extract_single_cutout catches it and the
\* citation gets no entry.
RunCutout(p) ==
    /\ runs[p].pc = "extracting"
    /\ runs[p].idx < Len(Citations(runs[p].combined_result, 0))
    /\ \E citation \in {Citations(runs[p].combined_result, 0)[runs[p].idx + 1]} :
       \E rendered \in {ExtractSourceStep(runs[p].extraction, citation.source,
                                          citation.unit_idx, runs[p].chunks, {})} :
       \E files \in {SubSeq(rendered.saved, Len(runs[p].extraction.saved) + 1,
                            Len(rendered.saved))} :
          IF Len(files) = 0 \/ CutoutsDir \in DOMAIN output_files
          THEN /\ output_files' = WriteCutouts(output_files, runs[p].job_id, files)
               /\ runs' = [runs EXCEPT ![p].idx = runs[p].idx + 1,
                                       ![p].extraction = rendered]
          ELSE /\ runs' = [runs EXCEPT
                              ![p].idx = runs[p].idx + 1,
                              ![p].extraction =
                                  ExtractSourceStep(runs[p].extraction, citation.source,
                                                    citation.unit_idx, runs[p].chunks,
                                                    SavedNames(files))]
               /\ UNCHANGED output_files
    /\ UNCHANGED <<aloneVars, s3_objects>>

\* cutout_extractor.py lines 117 and 233-235: extract_cutouts returns or
\* raises, and the with block is left
RunExitExtractor(p) ==
    /\ runs[p].pc = "extracting"
    /\ runs[p].idx = Len(Citations(runs[p].combined_result, 0))
    /\ runs' = IF runs[p].extraction.raised # None
               THEN RunRaise(p, runs[p].extraction.raised)
               ELSE [runs EXCEPT ![p].pc = "cutouts_done", ![p].idx = 0,
                                 ![p].cutout_paths = runs[p].extraction.paths]
    /\ UNCHANGED <<aloneVars, output_files, s3_objects>>

\* lines 52-57 and 108-109: upload_cutouts_to_s3 of a manifest without keys
RunUploadNone(p) ==
    /\ runs[p].pc = "cutouts_done"
    /\ Len(UploadOrder(runs[p].extraction.saved)) = 0
    /\ runs' = [runs EXCEPT ![p].pc = "uploaded", ![p].s3_cutout_paths = <<EmptyDict>>]
    /\ UNCHANGED <<aloneVars, output_files, s3_objects>>

\* lines 57-106: the upload of one local file.  upload_file_from_path raises
\* for a file that is not there, which is caught, and puts under the key
\* what the file holds now.
RunUploadFile(p) ==
    /\ runs[p].pc \in {"cutouts_done", "uploading"}
    /\ runs[p].idx < Len(UploadOrder(runs[p].extraction.saved))
    /\ LET r == runs[p]
           order == UploadOrder(r.extraction.saved)
           local_path == order[r.idx + 1].file
           field_key == SavedKey(order[r.idx + 1])
           so_far == IF r.s3_cutout_paths = <<>> THEN EmptyDict
                     ELSE r.s3_cutout_paths[1]
           begun == Put(so_far, field_key, Get(so_far, field_key, <<>>))
           s3_uri == S3Uri(field_key, local_path, bucket_name, r.job_id)
           last == r.idx + 1 = Len(order)
           after == [r EXCEPT !.pc = IF last THEN "uploaded" ELSE "uploading",
                              !.idx = IF last THEN 0 ELSE r.idx + 1]
       IN  IF local_path \in DOMAIN output_files
           THEN /\ s3_objects' =
                      Put(s3_objects, s3_uri,
                          Append(Get(s3_objects, s3_uri, <<>>), local_path))
                /\ runs' = [runs EXCEPT ![p] =
                               [after EXCEPT
                                   !.s3_cutout_paths =
                                       <<Put(begun, field_key,
                                             Append(begun[field_key], s3_uri))>>,
                                   !.uploaded = Append(@, output_files[local_path])]]
           ELSE /\ runs' = [runs EXCEPT ![p] =
                               [after EXCEPT !.s3_cutout_paths = <<begun>>]]
                /\ UNCHANGED s3_objects
    /\ UNCHANGED <<aloneVars, output_files>>

\* line 572 and cutout_extractor.py line 249: open(output_file, 'w'), which
\* raises when the directory is not there
RunOpenManifest(p) ==
    /\ runs[p].pc = "uploaded"
    /\ IF OUTPUT_DIR \in DOMAIN output_files
       THEN /\ output_files' = OpenForWriting(output_files, ManifestFile, runs[p].job_id)
            /\ runs' = [runs EXCEPT ![p].pc = "manifest_open", ![p].fd = "linked"]
       ELSE /\ runs' = RunRaise(p, "FileNotFoundError")
            /\ UNCHANGED output_files
    /\ UNCHANGED <<aloneVars, s3_objects>>

\* cutout_extractor.py line 250: json.dump(cutout_paths, f) and the end of
\* the with block
RunDumpManifest(p) ==
    /\ runs[p].pc = "manifest_open"
    /\ output_files' \in DumpOutcomes(output_files, runs[p].fd, ManifestFile,
                                      runs[p].job_id, runs[p].s3_cutout_paths[1])
    /\ runs' = [runs EXCEPT ![p].pc = "manifest_written", ![p].fd = "none",
                            ![p].manifest = runs[p].s3_cutout_paths]
    /\ UNCHANGED <<aloneVars, s3_objects>>

\* line 579 and report_generator.py lines 20-24:
\* os.path.exists(cutout_manifest_path)
RunManifestExists(p) ==
    /\ runs[p].pc = "manifest_written"
    /\ runs' = IF ManifestFile \in DOMAIN output_files
               THEN [runs EXCEPT ![p].pc = "manifest_found"]
               ELSE [runs EXCEPT ![p].pc = "report_ready",
                                 ![p].cutout_manifest = EmptyDict]
    /\ UNCHANGED <<aloneVars, output_files, s3_objects>>

\* report_generator.py lines 26-27: the manifest file is opened and read,
\* which raises when it is gone since the test or holds no JSON text
RunReadManifest(p) ==
    /\ runs[p].pc = "manifest_found"
    /\ runs' = IF ManifestFile \notin DOMAIN output_files
               THEN RunRaise(p, "FileNotFoundError")
               ELSE IF ~Readable(output_files[ManifestFile])
               THEN RunRaise(p, "JSONDecodeError")
               ELSE [runs EXCEPT ![p].pc = "report_ready",
                                 ![p].cutout_manifest =
                                     output_files[ManifestFile].data]
    /\ UNCHANGED <<aloneVars, output_files, s3_objects>>

\* report_generator.py line 29: open(report_path, 'w'), which raises when
\* the directory is not there
RunOpenReport(p) ==
    /\ runs[p].pc = "report_ready"
    /\ IF OUTPUT_DIR \in DOMAIN output_files
       THEN /\ output_files' = OpenForWriting(output_files, ReportFile, runs[p].job_id)
            /\ runs' = [runs EXCEPT ![p].pc = "report_open", ![p].fd = "linked"]
       ELSE /\ runs' = RunRaise(p, "FileNotFoundError")
            /\ UNCHANGED output_files
    /\ UNCHANGED <<aloneVars, s3_objects>>

\* report_generator.py lines 29-183: the report written and the file closed
RunWriteReport(p) ==
    /\ runs[p].pc = "report_open"
    /\ output_files' \in DumpOutcomes(output_files, runs[p].fd, ReportFile,
                                      runs[p].job_id,
                                      [units |-> runs[p].combined_result,
                                       cutouts |-> runs[p].cutout_manifest])
    /\ runs' = [runs EXCEPT ![p].pc = "manifest_saved", ![p].fd = "none"]
    /\ UNCHANGED <<aloneVars, s3_objects>>

\* lines 585-595: the merge, and the payload file opened, which raises when
\* the directory is not there
RunMerge(p) ==
    /\ runs[p].pc = "manifest_saved"
    /\ IF OUTPUT_DIR \in DOMAIN output_files
       THEN /\ output_files' = OpenForWriting(output_files, PayloadFile, runs[p].job_id)
            /\ runs' = [runs EXCEPT ![p].pc = "payload_open", ![p].fd = "linked"]
       ELSE /\ runs' = RunRaise(p, "FileNotFoundError")
            /\ UNCHANGED output_files
    /\ UNCHANGED <<aloneVars, s3_objects>>

\* lines 596-636: the merged payload written, and the return (SNS_TOPIC_ARN
\* is not set)
RunDumpPayload(p) ==
    /\ runs[p].pc = "payload_open"
    /\ LET merged == merge_results_with_cutouts(runs[p].contract_result,
                                                runs[p].installment_result,
                                                runs[p].s3_cutout_paths[1])
           payload == Payload(runs[p].job_id, bucket_name, merged)
       IN  /\ output_files' \in DumpOutcomes(output_files, runs[p].fd, PayloadFile,
                                             runs[p].job_id, payload)
           /\ runs' = [runs EXCEPT ![p].pc = "done", ![p].fd = "none",
                                   ![p].payload = <<payload>>]
    /\ UNCHANGED <<aloneVars, s3_objects>>

NextTwoRuns ==
    \/ \E p \in RunIds : RunExists(p)
    \/ \E p \in RunIds : RunRmtreeLstat(p)
    \/ \E p \in RunIds : RunRmtreeOpen(p)
    \/ \E p \in RunIds : RunRmtreeScandir(p)
    \/ \E p \in RunIds : RunRmtreeUnlink(p)
    \/ \E p \in RunIds : RunRmtreeOpenSub(p)
    \/ \E p \in RunIds : RunRmtreeScanSub(p)
    \/ \E p \in RunIds : RunRmtreeUnlinkSub(p)
    \/ \E p \in RunIds : RunRmtreeRmdirSub(p)
    \/ \E p \in RunIds : RunRmtreeRmdir(p)
    \/ \E p \in RunIds : RunMkdir(p)
    \/ \E p \in RunIds : RunMkdirIsDir(p)
    \/ \E p \in RunIds : RunLoadChunks(p)
    \/ \E p \in RunIds : RunConvert(p)
    \/ \E p \in RunIds : RunOpenChunks(p)
    \/ \E p \in RunIds : RunDumpChunks(p)
    \/ \E p \in RunIds : RunExtractContract(p)
    \/ \E p \in RunIds : RunOpenContract(p)
    \/ \E p \in RunIds : RunDumpContract(p)
    \/ \E p \in RunIds : RunExtractInstallment(p)
    \/ \E p \in RunIds : RunOpenInstallment(p)
    \/ \E p \in RunIds : RunDumpInstallment(p)
    \/ \E p \in RunIds : RunCombine(p)
    \/ \E p \in RunIds : RunOpenExtractor(p)
    \/ \E p \in RunIds : RunMkdirParent(p)
    \/ \E p \in RunIds : RunParentIsDir(p)
    \/ \E p \in RunIds : RunMkdirCutouts(p)
    \/ \E p \in RunIds : RunCutoutsIsDir(p)
    \/ \E p \in RunIds : RunCutout(p)
    \/ \E p \in RunIds : RunExitExtractor(p)
    \/ \E p \in RunIds : RunUploadNone(p)
    \/ \E p \in RunIds : RunUploadFile(p)
    \/ \E p \in RunIds : RunOpenManifest(p)
    \/ \E p \in RunIds : RunDumpManifest(p)
    \/ \E p \in RunIds : RunManifestExists(p)
    \/ \E p \in RunIds : RunReadManifest(p)
    \/ \E p \in RunIds : RunOpenReport(p)
    \/ \E p \in RunIds : RunWriteReport(p)
    \/ \E p \in RunIds : RunMerge(p)
    \/ \E p \in RunIds : RunDumpPayload(p)

SpecTwoRuns == InitTwoRuns /\ [][NextTwoRuns]_vars

---------------------------------------------------------------------------
(* Properties *)

\* the merged payload, once computed
Merged == merged_results[1]

ChunkIdsOf(chunk_list) == {chunk_list[k].chunk_id : k \in 1..Len(chunk_list)}

\* the fields a unit's citations name
CitedFields(unit_data) ==
    {unit_data.sources[k].field : k \in 1..Len(unit_data.sources)}

\* no two entries of the sequence name the same field
NoDuplicateField(entries) ==
    \A j, k \in 1..Len(entries) : entries[j].field = entries[k].field => j = k

\* an S3 locator produced by the upload of this run
IsArtifactUri(v) ==
    \E n \in 1..(2 * MaxUnits + 1), f \in FieldNames :
        v = S3Uri(FieldKey(n, f), "", BUCKET, JOB_ID)

\* C1 (as claimed): in the payload of main, a citation whose chunk_id is not in
\* the chunk list leaves the unit's other citations in place (one merged entry
\* per citation, same field, same order) and its own chunk_file_key is the
\* literal chunk_id or null, never an artifact URI, whatever the unit's other
\* citations are.
C1_UnknownChunkKeepsRawId ==
    merged_results # <<>> =>
        \A i \in 1..Len(contract_result) :
            /\ i <= Len(Merged)
            /\ Len(Merged[i].sources) = Len(contract_result[i].sources)
            /\ \A j \in 1..Len(contract_result[i].sources) :
                  LET source == contract_result[i].sources[j]
                      entry == Merged[i].sources[j]
                  IN  /\ entry.field = source.field
                      /\ source.chunk_id \notin ChunkIdsOf(chunks) =>
                            entry.chunk_file_key \in {source.chunk_id, None}

\* C2 (as claimed): in the payload of main, when both passes return a unit at
\* ordinal i and each pass cites each field at most once, merged unit i holds
\* every field key of both passes, its sources cover the citations of both
\* passes, and no two of its sources name the same field.
C2_EndToEndMerge ==
    merged_results # <<>> =>
        \A i \in 1..Min(Len(contract_returned), Len(installment_returned)) :
            LET a == contract_returned[i]
                b == installment_returned[i]
            IN  (NoDuplicateField(a.sources) /\ NoDuplicateField(b.sources)) =>
                    /\ i <= Len(Merged)
                    /\ (DOMAIN a.unit \cup DOMAIN b.unit) \subseteq DOMAIN Merged[i].unit
                    /\ (CitedFields(a) \cup CitedFields(b)) \subseteq CitedFields(Merged[i])
                    /\ NoDuplicateField(Merged[i].sources)

\* what "merged unit m is built from contract unit a and installment unit b"
\* can be observed of: a's fields other than installmentPlans with a's
\* values, b's non-empty installmentPlans, b's confidence entries over a's,
\* a's citations first and in order, and an entry for every field b cites
BuiltFrom(m, a, b) ==
    /\ \A f \in DOMAIN a.unit \ {"installmentPlans"} :
          f \in DOMAIN m.unit /\ m.unit[f] = a.unit[f]
    /\ ("installmentPlans" \in DOMAIN b.unit /\ Truthy(b.unit["installmentPlans"])) =>
          ("installmentPlans" \in DOMAIN m.unit
              /\ m.unit["installmentPlans"] = b.unit["installmentPlans"])
    /\ \A k \in DOMAIN b.confidence :
          k \in DOMAIN m.confidence /\ m.confidence[k] = b.confidence[k]
    /\ \A k \in DOMAIN a.confidence \ DOMAIN b.confidence :
          k \in DOMAIN m.confidence /\ m.confidence[k] = a.confidence[k]
    /\ Len(m.sources) >= Len(a.sources)
    /\ \A j \in 1..Len(a.sources) : m.sources[j].field = a.sources[j].field
    /\ CitedFields(b) \subseteq CitedFields(m)

\* C3: when both passes hand merge_results_with_cutouts K units, it returns K
\* merged units and merged unit i is built from ordinal i of both passes,
\* whatever unitCode the two units declare.
C3_PositionalMerge ==
    (pc = "returned" /\ Len(contract_result) = Len(installment_result)) =>
        /\ Len(Merged) = Len(contract_result)
        /\ \A i \in 1..Len(contract_result) :
              BuiltFrom(Merged[i], contract_result[i], installment_result[i])

\* C3 witness: two units per pass, merged, the second pair declaring
\* different unitCodes
C3_Witness ==
    /\ pc = "returned"
    /\ Len(contract_result) = 2
    /\ Len(installment_result) = 2
    /\ Len(Merged) = 2
    /\ "unitCode" \in DOMAIN contract_result[2].unit
    /\ "unitCode" \in DOMAIN installment_result[2].unit
    /\ contract_result[2].unit["unitCode"] # installment_result[2].unit["unitCode"]
    /\ contract_result[1] # contract_result[2]
    /\ installment_result[1] # installment_result[2]

\* C4 (as claimed): every field of a pass's unit i that is absent or null in
\* the record accumulated before that pass is in merged unit i with that
\* pass's value: every field of the base unit, and every field of the later
\* unit that the base unit lacks or holds as null.
C4_NoFieldDropped ==
    pc = "returned" =>
        \A i \in 1..Len(contract_result) :
            /\ i <= Len(Merged)
            /\ \A f \in DOMAIN contract_result[i].unit :
                  f \in DOMAIN Merged[i].unit
            /\ i <= Len(installment_result) =>
                  \A f \in DOMAIN installment_result[i].unit :
                      (f \notin DOMAIN contract_result[i].unit
                          \/ contract_result[i].unit[f] = None) =>
                          (f \in DOMAIN Merged[i].unit
                              /\ Merged[i].unit[f] = installment_result[i].unit[f])

\* C5 (as claimed): a non-null field of the base pass's unit i keeps its value
\* in unit i of main's combined_result and of the merged payload, whatever the
\* later pass's unit i holds for it.
C5_NeverOverwrite ==
    /\ pc \in {"combined", "extracting", "exiting", "cutouts_done", "uploaded",
               "manifest_saved", "merged", "done"} =>
          \A i \in 1..Len(contract_returned) :
              \A f \in DOMAIN contract_returned[i].unit :
                  contract_returned[i].unit[f] # None =>
                      (f \in DOMAIN combined_result[i].unit
                          /\ combined_result[i].unit[f] = contract_returned[i].unit[f])
    /\ merged_results # <<>> =>
          \A i \in 1..Len(contract_returned) :
              \A f \in DOMAIN contract_returned[i].unit :
                  contract_returned[i].unit[f] # None =>
                      (f \in DOMAIN Merged[i].unit
                          /\ Merged[i].unit[f] = contract_returned[i].unit[f])

\* C6 (as claimed): the units of the later pass past the end of the base pass
\* are appended, in order, to main's combined_result and to the merged
\* payload, which both hold max(len(base), len(later)) units.
C6_ExtraUnitsSurvive ==
    LET most == Max(Len(contract_returned), Len(installment_returned))
    IN  /\ pc \in {"combined", "extracting", "exiting", "cutouts_done", "uploaded",
               "manifest_saved", "merged", "done"} =>
              /\ Len(combined_result) = most
              /\ \A i \in (Len(contract_returned) + 1)..most :
                    combined_result[i] = installment_returned[i]
        /\ merged_results # <<>> =>
              /\ Len(Merged) = most
              /\ \A i \in (Len(contract_returned) + 1)..most :
                    Merged[i].unit = installment_returned[i].unit

\* the installment unit handed to the call at the ordinal of contract unit i
LaterSources(i) ==
    IF i <= Len(installment_result) THEN installment_result[i].sources ELSE <<>>

\* positions of the later citations that are kept: the field is cited by no
\* base citation and by no earlier later citation
KeptLater(base, later) ==
    {k \in 1..Len(later) :
        /\ \A j \in 1..Len(base) : base[j].field # later[k].field
        /\ \A j \in 1..(k - 1) : later[j].field # later[k].field}

\* the n-th smallest member of a set of positions
NthOf(K, n) == CHOOSE k \in K : Cardinality({x \in K : x < k}) = n - 1

\* C7: the sources of merged unit i are the base citations of unit i in
\* order, followed, in order, by exactly those later citations whose field
\* was in no entry already there when they were considered.
C7_SourceUnion ==
    pc = "returned" =>
        \A i \in 1..Len(contract_result) :
            LET base == contract_result[i].sources
                later == LaterSources(i)
                kept == KeptLater(base, later)
                m == Merged[i].sources
            IN  /\ Len(m) = Len(base) + Cardinality(kept)
                /\ \A j \in 1..Len(base) : m[j].field = base[j].field
                /\ \A n \in 1..Cardinality(kept) :
                      m[Len(base) + n].field = later[NthOf(kept, n)].field

\* C7 witness: a merged unit where one later citation was added after the
\* base citations and another was left out
C7_Witness ==
    /\ pc = "returned"
    /\ \E i \in 1..Len(contract_result) :
          LET base == contract_result[i].sources
              later == LaterSources(i)
              kept == KeptLater(base, later)
          IN  /\ Len(base) > 0
              /\ kept # {}
              /\ kept # 1..Len(later)
              /\ Len(Merged[i].sources) = Len(base) + Cardinality(kept)

\* C8: the confidence map of merged unit i has the keys of both passes' maps
\* at ordinal i, the later pass's value on a common key, and is the base map
\* when the later pass has no unit at ordinal i.
C8_ConfidenceUnion ==
    pc = "returned" =>
        \A i \in 1..Len(contract_result) :
            LET a == contract_result[i].confidence
                m == Merged[i].confidence
            IN  IF i <= Len(installment_result)
                THEN LET b == installment_result[i].confidence
                     IN  /\ DOMAIN m = DOMAIN a \cup DOMAIN b
                         /\ \A k \in DOMAIN b : m[k] = b[k]
                         /\ \A k \in DOMAIN a \ DOMAIN b : m[k] = a[k]
                ELSE m = a

\* C8 witness: a merged unit whose passes disagree on the confidence of a
\* key, and a merged unit with no later unit at its ordinal
C8_Witness ==
    /\ pc = "returned"
    /\ \E i \in 1..Len(contract_result) :
          /\ i <= Len(installment_result)
          /\ \E k \in DOMAIN contract_result[i].confidence
                        \cap DOMAIN installment_result[i].confidence :
                /\ contract_result[i].confidence[k] # installment_result[i].confidence[k]
                /\ Merged[i].confidence[k] = installment_result[i].confidence[k]
    /\ \E i \in 1..Len(contract_result) :
          /\ i > Len(installment_result)
          /\ Merged[i].confidence # EmptyDict

\* C9 (as claimed): in the payload of main, every field cited by a pass at
\* ordinal i has an entry in the sources of merged unit i, and every merged
\* entry's chunk_file_key is an artifact locator or the citation's chunk_id,
\* null only for a 'calculated' citation or one without chunk_id.
C9_ProvenanceKept ==
    merged_results # <<>> =>
        /\ \A i \in 1..Len(contract_returned) :
              \A f \in CitedFields(contract_returned[i]) :
                  i <= Len(Merged) /\ f \in CitedFields(Merged[i])
        /\ \A i \in 1..Len(installment_returned) :
              \A f \in CitedFields(installment_returned[i]) :
                  i <= Len(Merged) /\ f \in CitedFields(Merged[i])
        /\ \A i \in 1..Len(Merged) :
              \A j \in 1..Len(Merged[i].sources) :
                  LET key == Merged[i].sources[j].chunk_file_key
                      chunk_id == contract_result[i].sources[j].chunk_id
                  IN  /\ IsArtifactUri(key) \/ key = chunk_id \/ key = None
                      /\ key = None => chunk_id \in {"calculated", None}

\* C10 (as claimed): from the return of a pass to the end of main, the units
\* the pass returned keep the fields, sources and confidence they had.
C10_PassOutputsUntouched ==
    /\ contract_result = contract_returned
    /\ installment_result = installment_returned


\* C12 (as claimed): _parse_bbox never raises; it returns the four numbers of
\* a 4-element list or tuple of numbers and of a string of four comma-separated
\* numbers, with or without parentheses, and None for every other argument.
C12_ParseBboxTotal ==
    pc = "returned" =>
        /\ raised = None
        /\ result = (IF args.numbers # <<>> THEN args.numbers[1] ELSE NoBbox)

\* C15: a bbox written as the text of four numbers is parsed to the values the
\* list of the same four numbers is parsed to, which are those numbers, and the
\* two resolve to the same region on every page with every padding.
C15_StringListEquivalent ==
    (pc = "returned" /\ "str" \in DOMAIN args.bbox /\ args.numbers # <<>>) =>
        LET as_list == ParseBbox(BList(Nums(args.numbers[1])))
        IN  /\ raised = None
            /\ as_list.raised = None
            /\ result = args.numbers[1]
            /\ result = as_list.value
            /\ \A page_idx \in 0..(PageCount - 1), padding \in {0, Padding} :
                  PaddedRect(result, padding, PageRect(page_idx))
                      = PaddedRect(as_list.value, padding, PageRect(page_idx))

\* C15 witness: the text "(-5, 650, 20, 0)" parsed to -5, 650, 20, 0
C15_Witness ==
    /\ pc = "returned"
    /\ "str" \in DOMAIN args.bbox
    /\ args.bbox.str = <<"(", "-", "5", ",", " ", "6", "5", "0", ",", " ",
                         "2", "0", ",", " ", "0", ")">>
    /\ result = <<-5, 650, 20, 0>>


\* C13: the region handed to get_pixmap for the parsed bbox (l, t, r, b),
\* padding p and a page of width W and height H is left = max(0, l - p),
\* top = max(0, (H - t) - p), right = min(W, r + p), bottom = min(H, (H - b) + p),
\* whatever the scale factor; it is handed over once, for the page asked for.
C13_GeometryResolution ==
    (pc = "returned" /\ args.page_num \in 1..PageCount) =>
        LET l == args.bbox[1]
            t == args.bbox[2]
            r == args.bbox[3]
            b == args.bbox[4]
            p == args.padding
            W == PageRect(args.page_num - 1).width
            H == PageRect(args.page_num - 1).height
        IN  /\ Len(pixmap_calls) = 1
            /\ pixmap_calls[1].page_idx = args.page_num - 1
            /\ pixmap_calls[1].clip[1] = (IF l - p > 0 THEN l - p ELSE 0)
            /\ pixmap_calls[1].clip[2] = (IF (H - t) - p > 0 THEN (H - t) - p ELSE 0)
            /\ pixmap_calls[1].clip[3] = (IF r + p < W THEN r + p ELSE W)
            /\ pixmap_calls[1].clip[4] = (IF (H - b) + p < H THEN (H - b) + p ELSE H)

\* C13 witness: H = 800, W = 600, bbox (100, 700, 300, 650), padding 10, at
\* scale 1, gives the region 90, 90, 310, 160
C13_Witness ==
    /\ pc = "returned"
    /\ args.page_num = 1
    /\ args.bbox = <<100, 700, 300, 650>>
    /\ args.padding = 10
    /\ args.scale = 1
    /\ PageRect(0) = [width |-> 600, height |-> 800]
    /\ Len(pixmap_calls) = 1
    /\ pixmap_calls[1].clip = <<90, 90, 310, 160>>

\* C14 (as claimed): every region handed to get_pixmap has left < right and
\* top < bottom, and so has the region of every cutout written or returned; a
\* region of no or negative width or height makes the call return None.
C14_NoDegenerateRegion ==
    pc = "returned" =>
        /\ \A k \in 1..Len(pixmap_calls) :
              /\ pixmap_calls[k].clip[1] < pixmap_calls[k].clip[3]
              /\ pixmap_calls[k].clip[2] < pixmap_calls[k].clip[4]
        /\ (args.page_num \in 1..PageCount /\ result # None) =>
              LET clip == PaddedRect(args.bbox, args.padding, PageRect(args.page_num - 1))
              IN  clip[1] < clip[3] /\ clip[2] < clip[4]

\* C16: a page number below 1 or above the page count makes
\* _extract_single_cutout return None: nothing is raised, get_pixmap is not
\* called and no file is written.
C16_PageRangeCheck ==
    (pc = "returned" /\ (args.page_num < 1 \/ args.page_num > PageCount)) =>
        /\ result = None
        /\ raised = None
        /\ pixmap_calls = <<>>
        /\ saved = <<>>

\* C16 witness: the call returned for page 0
C16_Witness ==
    /\ pc = "returned"
    /\ args.page_num = 0
    /\ result = None

\* C17: two cutouts written under the same file name were written for the
\* same unit ordinal, field, chunk id and page.
C17_NamesInjective ==
    \A i, j \in 1..Len(saved) :
        saved[i].file = saved[j].file =>
            /\ saved[i].unit_index = saved[j].unit_index
            /\ saved[i].field = saved[j].field
            /\ saved[i].chunk_id = saved[j].chunk_id
            /\ saved[i].page_num = saved[j].page_num

\* C17 witness: two cutouts written for the same unit, chunk and page, the
\* field of one being the field of the other up to an underscore
C17_Witness ==
    /\ Len(saved) = 2
    /\ saved[1].field = "unitCode"
    /\ saved[2].field = "unit_code"
    /\ saved[1].unit_index = saved[2].unit_index
    /\ saved[1].chunk_id = saved[2].chunk_id
    /\ saved[1].page_num = saved[2].page_num
    /\ saved[1].file # saved[2].file


\* what a citation of the unit at ordinal i (1-based) yields when it is the
\* only citation processed
Alone(source, i) == ExtractSourceStep(NoCutouts, source, i - 1, chunks, render_failing)

\* C11 (as claimed): extract_cutouts returns normally, and every citation
\* that yields an artifact when processed alone has that artifact in the
\* manifest under its key, whatever citations come before it.
C11_FailureIsolation ==
    pc = "returned" =>
        /\ raised = None
        /\ \A i \in 1..Len(args.extraction_result) :
              \A j \in 1..Len(args.extraction_result[i].sources) :
                  LET source == args.extraction_result[i].sources[j]
                      alone == Alone(source, i)
                      key == FieldKey(i, source.field)
                  IN  (alone.raised = None /\ key \in DOMAIN alone.paths) =>
                          /\ key \in DOMAIN cutout_paths
                          /\ \E k \in 1..Len(cutout_paths[key]) :
                                cutout_paths[key][k] = alone.paths[key][1]

\* the files written for the unit at ordinal n (1-based) and field f, in the
\* order they were written
FilesWrittenFor(n, f) ==
    LET hits == SelectSeq(saved, LAMBDA e : e.unit_index = n - 1 /\ e.field = f)
    IN  [k \in 1..Len(hits) |-> hits[k].file]

\* C20: the manifest's keys are the keys "unit{n+1}_{f}" of the artifacts
\* written, and the list of each key holds all the artifacts written for that
\* unit and field, in citation order, and nothing else.
C20_ManifestKeys ==
    pc = "returned" =>
        /\ \A k \in 1..Len(saved) :
              FieldKey(saved[k].unit_index + 1, saved[k].field) \in DOMAIN cutout_paths
        /\ \A key \in DOMAIN cutout_paths :
              \E n \in 1..Len(args.extraction_result), f \in FieldNames :
                  /\ key = "unit" \o ToString(n) \o "_" \o f
                  /\ cutout_paths[key] = FilesWrittenFor(n, f)
                  /\ Len(cutout_paths[key]) > 0

\* C20 witness: a manifest with two artifacts under one key of the second
\* unit and an artifact under another key
C20_Witness ==
    /\ pc = "returned"
    /\ "unit2_unitCode" \in DOMAIN cutout_paths
    /\ Len(cutout_paths["unit2_unitCode"]) = 2
    /\ cutout_paths["unit2_unitCode"][1] # cutout_paths["unit2_unitCode"][2]
    /\ "unit1_sellValue" \in DOMAIN cutout_paths

\* an element parse_pdf_to_chunks keeps: a table with provenance, an item
\* with text that is not blank and with provenance
TableLocated(table) == Len(table.prov) > 0

ItemKept(item) ==
    /\ "text" \in DOMAIN item
    /\ \E k \in 1..Len(item.text) : item.text[k] # " "
    /\ Len(item.prov) > 0

KeptCount ==
    Cardinality({k \in 1..Len(doc.tables) : TableLocated(doc.tables[k])})
        + Cardinality({k \in 1..Len(doc.items) : ItemKept(doc.items[k])})

\* C18: the k-th chunk returned (k = 0, 1, ...) has the id "chunk_" followed
\* by the three decimal digits of k, the ids are pairwise distinct, and there
\* are as many chunks as elements that are not skipped.
C18_ChunkIdentity ==
    pc = "returned" =>
        /\ Len(chunks) = KeptCount
        /\ \A k \in 0..(Len(chunks) - 1) :
              chunks[k + 1].chunk_id =
                  "chunk_" \o ToString(k \div 100) \o ToString((k \div 10) % 10)
                      \o ToString(k % 10)
        /\ \A j, k \in 1..Len(chunks) :
              chunks[j].chunk_id = chunks[k].chunk_id => j = k

\* C18 witness: more than ten chunks from a document with skipped elements
C18_Witness ==
    /\ pc = "returned"
    /\ Len(chunks) > 10
    /\ chunks[11].chunk_id = "chunk_010"
    /\ Len(doc.tables) + Len(doc.items) > Len(chunks)
    /\ \E k \in 1..Len(doc.tables) : ~TableLocated(doc.tables[k])

\* the chunks of element_type 'table'
TableChunkPositions == {k \in 1..Len(chunks) : chunks[k].element_type = "table"}

\* C19 (as claimed): every table of the document yields one chunk of
\* element_type 'table' whose text is the table's markdown, the table chunks
\* come first, and there are as many of them as the document has tables.
C19_EveryTableOneChunk ==
    pc = "returned" =>
        /\ Cardinality(TableChunkPositions) = Len(doc.tables)
        /\ TableChunkPositions = 1..Len(doc.tables)
        /\ \A i \in 1..Len(doc.tables) :
              i <= Len(chunks) /\ chunks[i].text = doc.tables[i].markdown

\* C19 (amended): every table that has provenance yields one chunk of
\* element_type 'table' whose text is the table's markdown, at the table's
\* page and bbox; the table chunks come first, in the order of the tables; a
\* table without provenance yields no chunk.
C19_LocatedTablesChunked ==
    pc = "returned" =>
        LET located == SelectSeq(doc.tables, TableLocated)
        IN  /\ TableChunkPositions = 1..Len(located)
            /\ \A i \in 1..Len(located) :
                  /\ chunks[i].text = located[i].markdown
                  /\ chunks[i].page = located[i].prov[1].page_no
                  /\ chunks[i].bbox = BboxTuple(located[i].prov[1].bbox)

\* C19 witness: a document of two tables, the first without provenance, and
\* a paragraph, parsed to a table chunk followed by a text chunk
C19_Witness ==
    /\ pc = "returned"
    /\ Len(doc.tables) = 2
    /\ ~TableLocated(doc.tables[1])
    /\ TableLocated(doc.tables[2])
    /\ Len(chunks) >= 2
    /\ chunks[1].element_type = "table"
    /\ chunks[1].text = doc.tables[2].markdown
    /\ chunks[2].element_type = "text"

\* the manifest main saved, once it is saved
ManifestSaved == ManifestFile \in DOMAIN output_files

SavedManifest == output_files[ManifestFile].data

\* an artifact location is available for the unit and field of a key: an S3
\* object when the upload was attempted, else a cutout file of the run
LocationAvailable(n, f) ==
    IF s3_cutout_paths # <<>>
    THEN S3Uri(FieldKey(n, f), "", bucket_name, job_id) \in DOMAIN s3_objects
    ELSE Len(FilesWrittenFor(n, f)) > 0

\* C21: in the manifest main saves, a key unit{N}_{field} is present if and
\* only if an artifact location for that unit and field is available, and no
\* key maps to an empty list.
C21_ManifestPresence ==
    ManifestSaved =>
        /\ \A n \in 1..(2 * MaxUnits), f \in FieldNames :
              FieldKey(n, f) \in DOMAIN SavedManifest <=> LocationAvailable(n, f)
        /\ \A k \in DOMAIN SavedManifest : Len(SavedManifest[k]) > 0

\* the positions of main after the with block was left without an exception
AfterCutouts == {"cutouts_done", "uploaded", "manifest_saved", "merged", "done"}

\* C22: the PDF handle is closed on every path out of the cutout step,
\* returning or raising, it is closed before the manifest is saved, the
\* merged payload written or a notification published, and no run of main
\* ends with the handle open.  A TypeError of the display loop (line 482)
\* leaves main before the document is opened and is no path out of the step.
C22_HandleScoped ==
    /\ pc \in AfterCutouts => handle = "closed"
    /\ (pc = "failed" /\ raised \in {"OSError", "TypeError"}
           /\ ~DisplayRaises(installment_result)) => handle = "closed"
    /\ pc \in {"done", "failed"} => handle # "open"
    /\ (ManifestSaved \/ PayloadFile \in DOMAIN output_files \/ published # <<>>) =>
          handle = "closed"

\* C22 witness: extract_cutouts raised inside the with block and main was
\* left with the document closed
C22_Witness ==
    /\ pc = "failed"
    /\ raised = "OSError"
    /\ handle = "closed"

\* the message of the record at 0-based index i
MessageOf(i) == event[i + 1].message

\* the record at index i names an object of the bucket and a contract
Downloadable(i) ==
    /\ event[i + 1].is_json
    /\ "file_key" \in DOMAIN MessageOf(i)
    /\ "contract_id" \in DOMAIN MessageOf(i)
    /\ MessageOf(i).file_key \in DOMAIN BucketPdfs

\* the record at index i names a document that cannot be opened
Unopenable(i) ==
    /\ Downloadable(i)
    /\ BucketPdfs[MessageOf(i).file_key].kind # "pdf"

\* an output of main written for the job: the manifest, the merged payload
\* or a notification
OutputFor(job) ==
    \/ ManifestFile \in DOMAIN output_files /\ output_files[ManifestFile].writer = job
    \/ PayloadFile \in DOMAIN output_files /\ output_files[PayloadFile].writer = job
    \/ \E k \in 1..Len(published) : published[k].message.jobId = job

\* C23: when the document of a record cannot be opened, main raises, the
\* handler invocation does not complete as though the record had been
\* processed, and no manifest, merged payload or notification is produced
\* for that document.
C23_DocumentFailureVisible ==
    \A k \in 1..Len(attempts) :
        Unopenable(attempts[k].record) =>
            /\ attempts[k].outcome = "main_raised"
            /\ ~OutputFor(MessageOf(attempts[k].record).contract_id)
            /\ pc # "h_returned"

\* the record at index i lacks file_key or contract_id
Incomplete(i) ==
    /\ event[i + 1].is_json
    /\ ("file_key" \notin DOMAIN MessageOf(i) \/ "contract_id" \notin DOMAIN MessageOf(i))

\* C27: every record of the event is attempted exactly once, in event order;
\* a record without file_key or contract_id is skipped without download or
\* processing; an exception of one record does not keep a later record from
\* being processed.
C27_RecordsIndependent ==
    /\ \A k \in 1..Len(attempts) :
          /\ attempts[k].record = k - 1
          /\ Incomplete(k - 1) =>
                (attempts[k].outcome = "skipped" /\ attempts[k].local = None)
          /\ Downloadable(k - 1) =>
                attempts[k].outcome \in {"processed", "main_raised"}
    /\ pc \in {"h_loop", "h_returned"} => Len(attempts) = record_idx
    /\ pc = "h_returned" => Len(attempts) = Len(event)

\* C27 witness: the first record raised in main and the second was processed
C27_Witness ==
    /\ pc = "h_returned"
    /\ Len(attempts) = 2
    /\ attempts[1].outcome = "main_raised"
    /\ attempts[2].outcome = "processed"

\* the positions of main at which the chunk list of the run is set
ChunksSet ==
    {"parsed", "contract_done", "installment_done", "displayed", "combined",
     "extracting", "exiting", "cutouts_done", "uploaded", "manifest_saved",
     "merged", "done"}

\* C28: in runs of main executed one after another, the chunk list a run
\* uses is the one parsed from its own pdf_path, and the chunk file in the
\* output directory is the one this run wrote.
C28_ChunksOfCurrentDocument ==
    (pc \in ChunksSet \/ (pc = "failed" /\ raised # "ConversionError")) =>
        /\ chunks = parse_pdf_to_chunks(pdf_files[pdf_path].document)
        /\ output_files[ChunksFile] = Written(job_id, chunks)

\* C28 witness: the second record's run has its chunk list, after the run of
\* the first record on another document returned
C28_Witness ==
    /\ pc = "parsed"
    /\ record_idx = 1
    /\ attempts[1].outcome = "processed"
    /\ MessageOf(0).file_key = <<"docs", "a.pdf">>
    /\ chunks = parse_pdf_to_chunks(SecondDoc)

\* C30: once the handler has finished with a record whose PDF it downloaded,
\* the local file no longer exists, whether main completed or raised.
C30_TempFileRemoved ==
    pc \in {"h_loop", "h_returned"} =>
        \A k \in 1..Len(attempts) :
            attempts[k].local # None => attempts[k].local \notin DOMAIN pdf_files

\* the object stored under an S3 URI: the last file put there
ObjectAt(uri) == s3_objects[uri][Len(s3_objects[uri])]

\* the cutout file was rendered from the chunk
RenderedFrom(file, chunk_id) ==
    \E k \in 1..Len(saved) : saved[k].file = file /\ saved[k].chunk_id = chunk_id

\* the citation of unit i (1-based) got a cutout of its own
OwnCutout(i, source) ==
    \E k \in 1..Len(saved) :
        /\ saved[k].unit_index = i - 1
        /\ saved[k].field = source.field
        /\ saved[k].chunk_id = source.chunk_id

\* C25: a merged entry whose chunk_file_key is an artifact locator points to
\* an artifact rendered from the chunk its citation names, and a citation
\* whose own geometry resolution failed falls back to its chunk_id or null.
C25_CitationOwnArtifact ==
    merged_results # <<>> =>
        \A i \in 1..Len(contract_result) :
            \A j \in 1..Len(contract_result[i].sources) :
                LET source == contract_result[i].sources[j]
                    entry == Merged[i].sources[j]
                IN  /\ IsArtifactUri(entry.chunk_file_key) =>
                          /\ entry.chunk_file_key \in DOMAIN s3_objects
                          /\ RenderedFrom(ObjectAt(entry.chunk_file_key), source.chunk_id)
                    /\ ~OwnCutout(i, source) =>
                          entry.chunk_file_key \in {source.chunk_id, None}

\* no upload of the run failed
UploadSucceeded ==
    /\ s3_cutout_paths # <<>>
    /\ \A k \in DOMAIN cutout_paths :
          Len(s3_cutout_paths[1][k]) = Len(cutout_paths[k])

\* C26: a notification is published only if a bucket name was given,
\* SNS_TOPIC_ARN is set and the upload of the cutouts was successful, and
\* never before the manifest and the merged payload have been written.
C26_NotifyOnlyAfterUpload ==
    published # <<>> =>
        /\ bucket_name # None
        /\ sns_topic_arn # None
        /\ UploadSucceeded
        /\ ManifestSaved
        /\ PayloadFile \in DOMAIN output_files

\* C29: different local cutout files are uploaded to different S3 keys: the
\* list of a manifest key holds pairwise distinct locators for distinct
\* files, and no uploaded cutout overwrites another one.
C29_DistinctLocations ==
    UploadSucceeded =>
        /\ \A k \in DOMAIN cutout_paths :
              \A a, b \in 1..Len(cutout_paths[k]) :
                  cutout_paths[k][a] # cutout_paths[k][b] =>
                      s3_cutout_paths[1][k][a] # s3_cutout_paths[1][k][b]
        /\ \A u \in DOMAIN s3_objects :
              \A a, b \in 1..Len(s3_objects[u]) : s3_objects[u][a] = s3_objects[u][b]

\* what run p produces when it runs alone: its chunk list, its cutouts, its
\* manifest and its merged payload
AloneChunks(p) == parse_pdf_to_chunks(RunDoc(p))

AloneManifest(p) ==
    upload_cutouts_to_s3(
        extract_cutouts(runs[p].combined_result, AloneChunks(p), {}).paths,
        BUCKET, RunJob(p), {})

AlonePayload(p) ==
    Payload(RunJob(p), BUCKET,
            merge_results_with_cutouts(runs[p].contract_result,
                                       runs[p].installment_result, AloneManifest(p)))

\* the file at the path is there and was written by the job
OwnFile(path, job) ==
    path \in DOMAIN output_files /\ output_files[path].writer = job

\* the positions of a run at which it holds its chunk list and its chunk file
\* is in the directory
ChunksInUse ==
    {"parsed", "contract_returned", "contract_file_open", "contract_done",
     "installment_returned", "installment_file_open", "installment_done",
     "combined", "mkdir_parent", "parent_exists", "mkdir_cutouts",
     "cutouts_exist", "extracting", "cutouts_done", "uploading", "uploaded",
     "manifest_open", "manifest_written", "manifest_found", "report_ready",
     "report_open", "manifest_saved", "payload_open"}

\* C24: when two executions of main for different documents are interleaved,
\* no run is ended by an exception, each run uses the chunk list it produced
\* itself, finds its chunk file, cutouts and manifest as it wrote them while
\* it runs, uploads only cutouts of its own, and its manifest and merged
\* payload are those of the run alone.
C24_RunsDoNotInterfere ==
    \A p \in RunIds :
        LET r == runs[p]
        IN  /\ r.pc # "failed"
            /\ r.pc \in ChunksInUse \cup {"done"} => r.chunks = AloneChunks(p)
            /\ r.pc \in ChunksInUse => OwnFile(ChunksFile, r.job_id)
            /\ r.pc \in {"cutouts_done", "uploading"} =>
                  \A f \in AllFiles(r.cutout_paths) : OwnFile(f, r.job_id)
            /\ \A j \in 1..Len(r.uploaded) : r.uploaded[j].writer = r.job_id
            /\ r.pc \in {"manifest_written", "manifest_found", "report_ready",
                         "report_open", "manifest_saved", "payload_open"} =>
                  OwnFile(ManifestFile, r.job_id)
            /\ r.manifest # <<>> => r.manifest[1] = AloneManifest(p)
            /\ r.payload # <<>> => r.payload[1] = AlonePayload(p)

=============================================================================
